---- MODULE Spec2Model ----
(***************************************************************************)
(* Model of the native engine's control plane (apps/native-engine/src/     *)
(* main.cpp): the MessagePack codec, the length-prefixed framing, the      *)
(* request dispatcher, the local transport clock and the socket worker's   *)
(* accept / select / recv / tick loop.                                     *)
(*                                                                         *)
(* Nine specifications share the variables:                                *)
(*   Spec          the socket thread serving clients that send Scripts;    *)
(*   SpecBig       the same thread and clients that send BigScripts,       *)
(*                 frames at and beyond kMaxFrameSize;                     *)
(*   SpecDispatch  one handleRequest call on a request of Requests and a   *)
(*                 clock of Clocks;                                        *)
(*   SpecCodec     encodeValue and Decoder::readValue on CodecValues;      *)
(*   SpecClock     TransportCore alone: play, pause, stop, seekToBeats     *)
(*                 and setBpm with ClockArgs, in any order, at any time;   *)
(*   SpecLive      the socket thread under fair scheduling, for what it    *)
(*                 does once g_running is false;                           *)
(*   SpecSend      sendFrame one send() at a time, against a peer that     *)
(*                 reads, stalls or goes, under fair scheduling;           *)
(*   SpecBackend   handleRequest and makeTickEvent with the Tracktion      *)
(*                 backend linked (tracktion_backend_tracktion.cpp), the   *)
(*                 message thread dispatching or not.                      *)
(*   SpecDecode    Decoder::readValue on the byte strings of DecodeInputs, *)
(*                 on machines whose heap and stack may run out.           *)
(* In all but SpecBackend the stub backend is linked                       *)
(* (g_useTracktionTransport is false) and the local TransportCore is the   *)
(* clock.  Time is counted in ms.                                          *)
(*                                                                         *)
(* Representation choices, all forced by TLC's 32-bit integers:            *)
(*  - an int64_t / uint64_t is a tuple of four 16-bit limbs, most          *)
(*    significant first (two's complement); a uint32_t is two limbs;       *)
(*  - a std::string / std::vector<uint8_t> is a sequence of bytes 0..255   *)
(*    in which a NEGATIVE element -n abbreviates n consecutive bytes 0x78  *)
(*    ('x'); this lets a frame of kMaxFrameSize bytes be written down;     *)
(*  - a double is a fixed-point number of 1/240000 beat (exact for the     *)
(*    tempi and times the model draws) or NaN, +Inf, -Inf, or a finite     *)
(*    value too large for the fixed-point range ("big"); its 64-bit        *)
(*    pattern, which the program only copies, is the model's own layout.   *)
(***************************************************************************)
EXTENDS Integers, Sequences, FiniteSets, TLC

\* ------------------------------------------------------------ constants
kBeatsPerBar == 4
kStepsPerBeat == 4
kTickMs == 40
kFrameHeaderBytes == 4
kMaxFrameSize == 1048576
\* timeout.tv_usec = 20000 of the select() call, in ms
kSelectMs == 20
\* std::array<uint8_t, 4096> chunk of the recv() call
kChunkBytes == 4096

\* ---------------------------------------------------- bounds of the model
\* longest array / largest key set of the generated nested Values
MaxArr == 2

\* ------------------------------------------------------------- byte strings
ESize(e) == IF e < 0 THEN -e ELSE 1
HasRun(s) == \E i \in DOMAIN s : s[i] < 0

RECURSIVE BLenR(_)
BLenR(s) == IF s = <<>> THEN 0 ELSE ESize(Head(s)) + BLenR(Tail(s))
\* s.size()
BLen(s) == IF HasRun(s) THEN BLenR(s) ELSE Len(s)

RECURSIVE BDropR(_, _)
BDropR(s, k) ==
  IF k = 0 \/ s = <<>> THEN s
  ELSE IF ESize(Head(s)) <= k THEN BDropR(Tail(s), k - ESize(Head(s)))
  ELSE <<Head(s) + k>> \o Tail(s)
\* s without its first k bytes
BDrop(s, k) == IF HasRun(s) THEN BDropR(s, k) ELSE SubSeq(s, k + 1, Len(s))

RECURSIVE BTakeR(_, _)
BTakeR(s, k) ==
  IF k = 0 \/ s = <<>> THEN <<>>
  ELSE IF ESize(Head(s)) <= k THEN <<Head(s)>> \o BTakeR(Tail(s), k - ESize(Head(s)))
  ELSE <<-k>>
\* the first k bytes of s
BTake(s, k) == IF HasRun(s) THEN BTakeR(s, k) ELSE SubSeq(s, 1, k)

\* a followed by b (two adjacent runs of filler are one run)
BCat(a, b) ==
  IF a # <<>> /\ b # <<>> /\ a[Len(a)] < 0 /\ b[1] < 0
  THEN SubSeq(a, 1, Len(a) - 1) \o <<a[Len(a)] + b[1]>> \o Tail(b)
  ELSE a \o b

\* s[i], i counted from 0
ByteAt(s, i) == LET r == BDrop(s, i) IN IF r[1] < 0 THEN 120 ELSE r[1]

\* lexicographic order of byte strings and of limb tuples (std::string operator<)
RECURSIVE LexLess(_, _)
LexLess(a, b) ==
  IF b = <<>> THEN FALSE
  ELSE IF a = <<>> THEN TRUE
  ELSE IF a[1] # b[1] THEN a[1] < b[1]
  ELSE LexLess(Tail(a), Tail(b))

Ascii ==
  ("type" :> <<116, 121, 112, 101>>) @@
  ("id" :> <<105, 100>>) @@
  ("ok" :> <<111, 107>>) @@
  ("payload" :> <<112, 97, 121, 108, 111, 97, 100>>) @@
  ("error" :> <<101, 114, 114, 111, 114>>) @@
  ("cmd" :> <<99, 109, 100>>) @@
  ("request" :> <<114, 101, 113, 117, 101, 115, 116>>) @@
  ("response" :> <<114, 101, 115, 112, 111, 110, 115, 101>>) @@
  ("event" :> <<101, 118, 101, 110, 116>>) @@
  ("transport" :> <<116, 114, 97, 110, 115, 112, 111, 114, 116>>) @@
  ("playing" :> <<112, 108, 97, 121, 105, 110, 103>>) @@
  ("recording" :> <<114, 101, 99, 111, 114, 100, 105, 110, 103>>) @@
  ("bpm" :> <<98, 112, 109>>) @@
  ("bar" :> <<98, 97, 114>>) @@
  ("beat" :> <<98, 101, 97, 116>>) @@
  ("step" :> <<115, 116, 101, 112>>) @@
  ("stepIndex" :> <<115, 116, 101, 112, 73, 110, 100, 101, 120>>) @@
  ("positionBars" :> <<112, 111, 115, 105, 116, 105, 111, 110, 66, 97, 114, 115>>) @@
  ("positionBeats" :> <<112, 111, 115, 105, 116, 105, 111, 110, 66, 101, 97, 116, 115>>) @@
  ("timestamp" :> <<116, 105, 109, 101, 115, 116, 97, 109, 112>>) @@
  ("position_beats" :> <<112, 111, 115, 105, 116, 105, 111, 110, 95, 98, 101, 97, 116, 115>>) @@
  ("position_bars" :> <<112, 111, 115, 105, 116, 105, 111, 110, 95, 98, 97, 114, 115>>) @@
  ("pong" :> <<112, 111, 110, 103>>) @@
  ("tracktion" :> <<116, 114, 97, 99, 107, 116, 105, 111, 110>>) @@
  ("trackCount" :> <<116, 114, 97, 99, 107, 67, 111, 117, 110, 116>>) @@
  ("track_count" :> <<116, 114, 97, 99, 107, 95, 99, 111, 117, 110, 116>>) @@
  ("plugin_uid" :> <<112, 108, 117, 103, 105, 110, 95, 117, 105, 100>>) @@
  ("pluginUid" :> <<112, 108, 117, 103, 105, 110, 85, 105, 100>>) @@
  ("name" :> <<110, 97, 109, 101>>) @@
  ("track_id" :> <<116, 114, 97, 99, 107, 95, 105, 100>>) @@
  ("trackId" :> <<116, 114, 97, 99, 107, 73, 100>>) @@
  ("transport.get_state" :> <<116, 114, 97, 110, 115, 112, 111, 114, 116, 46, 103, 101, 116, 95, 115, 116, 97, 116, 101>>) @@
  ("transport.play" :> <<116, 114, 97, 110, 115, 112, 111, 114, 116, 46, 112, 108, 97, 121>>) @@
  ("transport.pause" :> <<116, 114, 97, 110, 115, 112, 111, 114, 116, 46, 112, 97, 117, 115, 101>>) @@
  ("transport.stop" :> <<116, 114, 97, 110, 115, 112, 111, 114, 116, 46, 115, 116, 111, 112>>) @@
  ("transport.seek" :> <<116, 114, 97, 110, 115, 112, 111, 114, 116, 46, 115, 101, 101, 107>>) @@
  ("transport.set_bpm" :> <<116, 114, 97, 110, 115, 112, 111, 114, 116, 46, 115, 101, 116, 95, 98, 112, 109>>) @@
  ("transport.record" :> <<116, 114, 97, 110, 115, 112, 111, 114, 116, 46, 114, 101, 99, 111, 114, 100>>) @@
  ("transport.ensure-context" :> <<116, 114, 97, 110, 115, 112, 111, 114, 116, 46, 101, 110, 115, 117, 114, 101, 45, 99, 111, 110, 116, 101, 120, 116>>) @@
  ("transport:ensure-context" :> <<116, 114, 97, 110, 115, 112, 111, 114, 116, 58, 101, 110, 115, 117, 114, 101, 45, 99, 111, 110, 116, 101, 120, 116>>) @@
  ("transport.tick" :> <<116, 114, 97, 110, 115, 112, 111, 114, 116, 46, 116, 105, 99, 107>>) @@
  ("health.ping" :> <<104, 101, 97, 108, 116, 104, 46, 112, 105, 110, 103>>) @@
  ("backend.info" :> <<98, 97, 99, 107, 101, 110, 100, 46, 105, 110, 102, 111>>) @@
  ("edit:reset" :> <<101, 100, 105, 116, 58, 114, 101, 115, 101, 116>>) @@
  ("vst:scan" :> <<118, 115, 116, 58, 115, 99, 97, 110>>) @@
  ("vst:load" :> <<118, 115, 116, 58, 108, 111, 97, 100>>) @@
  ("bogus" :> <<98, 111, 103, 117, 115>>) @@
  ("message type must be 'request'" :> <<109, 101, 115, 115, 97, 103, 101, 32, 116, 121, 112, 101, 32, 109, 117, 115, 116, 32, 98, 101, 32, 34, 114, 101, 113, 117, 101, 115, 116, 34>>) @@
  ("unknown cmd: " :> <<117, 110, 107, 110, 111, 119, 110, 32, 99, 109, 100, 58, 32>>) @@
  ("frame too large" :> <<102, 114, 97, 109, 101, 32, 116, 111, 111, 32, 108, 97, 114, 103, 101>>) @@
  ("unexpected trailing bytes" :> <<117, 110, 101, 120, 112, 101, 99, 116, 101, 100, 32, 116, 114, 97, 105, 108, 105, 110, 103, 32, 98, 121, 116, 101, 115>>) @@
  ("frame root must be map" :> <<102, 114, 97, 109, 101, 32, 114, 111, 111, 116, 32, 109, 117, 115, 116, 32, 98, 101, 32, 109, 97, 112>>) @@
  ("decode error: " :> <<100, 101, 99, 111, 100, 101, 32, 101, 114, 114, 111, 114, 58, 32>>) @@
  ("unsupported MessagePack marker" :> <<117, 110, 115, 117, 112, 112, 111, 114, 116, 101, 100, 32, 77, 101, 115, 115, 97, 103, 101, 80, 97, 99, 107, 32, 109, 97, 114, 107, 101, 114>>) @@
  ("unexpected end of MessagePack buffer" :> <<117, 110, 101, 120, 112, 101, 99, 116, 101, 100, 32, 101, 110, 100, 32, 111, 102, 32, 77, 101, 115, 115, 97, 103, 101, 80, 97, 99, 107, 32, 98, 117, 102, 102, 101, 114>>) @@
  ("MessagePack map key must be string" :> <<77, 101, 115, 115, 97, 103, 101, 80, 97, 99, 107, 32, 109, 97, 112, 32, 107, 101, 121, 32, 109, 117, 115, 116, 32, 98, 101, 32, 115, 116, 114, 105, 110, 103>>) @@
  ("edit:reset requires STUU_ENABLE_TRACKTION=ON" :> <<101, 100, 105, 116, 58, 114, 101, 115, 101, 116, 32, 114, 101, 113, 117, 105, 114, 101, 115, 32, 83, 84, 85, 85, 95, 69, 78, 65, 66, 76, 69, 95, 84, 82, 65, 67, 75, 84, 73, 79, 78, 61, 79, 78>>) @@
  ("vst:scan requires STUU_ENABLE_TRACKTION=ON" :> <<118, 115, 116, 58, 115, 99, 97, 110, 32, 114, 101, 113, 117, 105, 114, 101, 115, 32, 83, 84, 85, 85, 95, 69, 78, 65, 66, 76, 69, 95, 84, 82, 65, 67, 75, 84, 73, 79, 78, 61, 79, 78>>) @@
  ("vst:load requires STUU_ENABLE_TRACKTION=ON" :> <<118, 115, 116, 58, 108, 111, 97, 100, 32, 114, 101, 113, 117, 105, 114, 101, 115, 32, 83, 84, 85, 85, 95, 69, 78, 65, 66, 76, 69, 95, 84, 82, 65, 67, 75, 84, 73, 79, 78, 61, 79, 78>>) @@
  ("vst:load requires payload" :> <<118, 115, 116, 58, 108, 111, 97, 100, 32, 114, 101, 113, 117, 105, 114, 101, 115, 32, 112, 97, 121, 108, 111, 97, 100>>) @@
  ("vst:load requires plugin_uid" :> <<118, 115, 116, 58, 108, 111, 97, 100, 32, 114, 101, 113, 117, 105, 114, 101, 115, 32, 112, 108, 117, 103, 105, 110, 95, 117, 105, 100>>) @@
  ("trackCount" :> <<116, 114, 97, 99, 107, 67, 111, 117, 110, 116>>) @@
  ("timeout during edit:reset (message thread)" :> <<116, 105, 109, 101, 111, 117, 116, 32, 100, 117, 114, 105, 110, 103, 32, 101, 100, 105, 116, 58, 114, 101, 115, 101, 116, 32, 40, 109, 101, 115, 115, 97, 103, 101, 32, 116, 104, 114, 101, 97, 100, 41>>) @@
  ("a" :> <<97>>) @@
  ("b" :> <<98>>) @@
  ("" :> <<>>)

\* ------------------------------------------------- 64-bit integers (limbs)
\* the int64_t with value n, |n| < 2^31
I64(n) ==
  IF n >= 0 THEN <<0, 0, n \div 65536, n % 65536>>
  ELSE LET m == -(n + 1)
       IN <<65535, 65535, 65535 - (m \div 65536), 65535 - (m % 65536)>>

\* a <= b as uint64_t
U64Leq(a, b) == ~LexLess(b, a)
\* a <= b as int64_t
I64Leq(a, b) ==
  LET flip(x) == <<(x[1] + 32768) % 65536, x[2], x[3], x[4]>>
  IN ~LexLess(flip(b), flip(a))

\* numeric_limits<int64_t>::min / max and the 32-bit boundaries
kInt64Max == <<32767, 65535, 65535, 65535>>
kInt64Min == <<32768, 0, 0, 0>>
kUint32Max == <<0, 0, 65535, 65535>>
kInt32Min == <<65535, 65535, 32768, 0>>

\* the value of an int64_t that fits 32 bits (InInt32)
InInt32(x) ==
  \/ x[1] = 0 /\ x[2] = 0 /\ x[3] < 32768
  \/ x[1] = 65535 /\ x[2] = 65535 /\ x[3] >= 32768
I64ToInt(x) ==
  IF x[1] = 0 THEN x[3] * 65536 + x[4]
  ELSE -((65535 - x[3]) * 65536 + (65535 - x[4])) - 1

\* ------------------------------------------------------------------ doubles
\* 1.0 as fixed point
Unit == 60000 * kBeatsPerBar
Fin(x) == [k |-> "fin", x |-> x]
NaN == [k |-> "nan", x |-> 0]
PInf == [k |-> "inf", x |-> 0]
NInf == [k |-> "ninf", x |-> 0]
Big == [k |-> "big", x |-> 0]
NBig == [k |-> "nbig", x |-> 0]
\* largest integer whose fixed-point image fits TLC's integers
MaxWhole == 8000

\* memcpy(&bits, &d, 8): the 64-bit pattern of a double
DoubleBits(d) ==
  CASE d.k = "fin" /\ d.x >= 0 -> <<0, 0, d.x \div 65536, d.x % 65536>>
    [] d.k = "fin" /\ d.x < 0 -> <<1, 0, (-d.x) \div 65536, (-d.x) % 65536>>
    [] d.k = "nan" -> <<2, 0, 0, 0>>
    [] d.k = "inf" -> <<3, 0, 0, 0>>
    [] d.k = "ninf" -> <<4, 0, 0, 0>>
    [] d.k = "big" -> <<5, 0, 0, 0>>
    [] d.k = "nbig" -> <<6, 0, 0, 0>>
\* memcpy(&d, &bits, 8)
DoubleFromBits(w) ==
  CASE w[1] = 0 /\ w[3] < 32768 -> Fin(w[3] * 65536 + w[4])
    [] w[1] = 1 /\ w[3] < 32768 -> Fin(-(w[3] * 65536 + w[4]))
    [] w[1] = 3 -> PInf
    [] w[1] = 4 -> NInf
    [] w[1] = 5 -> Big
    [] w[1] = 6 -> NBig
    [] OTHER -> NaN
\* static_cast<double>(int64_t)
DoubleOfI64(x) ==
  IF InInt32(x) /\ I64ToInt(x) <= MaxWhole /\ I64ToInt(x) >= -MaxWhole
  THEN Fin(I64ToInt(x) * Unit)
  ELSE IF x[1] < 32768 THEN Big ELSE NBig

\* ------------------------------------------------------------------- Values
\* MsgValue: the variant's alternative t and its content v
Nil == [t |-> "nil", v |-> <<>>]
MsgBool(b) == [t |-> "bool", v |-> <<IF b THEN 1 ELSE 0>>]
MsgInt(x) == [t |-> "int", v |-> x]
MsgDouble(d) == [t |-> "float", v |-> DoubleBits(d)]
MsgStr(s) == [t |-> "str", v |-> s]
MsgArr(a) == [t |-> "arr", v |-> a]
MsgObj(o) == [t |-> "map", v |-> o]
\* MsgValue::Object{{k1, v1}, ...}: the last entry of a key wins
Object(pairs) ==
  [key \in {pairs[i][1] : i \in DOMAIN pairs} |->
     LET last == CHOOSE i \in DOMAIN pairs :
                   /\ pairs[i][1] = key
                   /\ \A j \in DOMAIN pairs : pairs[j][1] = key => j <= i
     IN pairs[last][2]]
\* object[key] = value
ObjectPut(o, key, value) ==
  [k \in DOMAIN o \cup {key} |-> IF k = key THEN value ELSE o[k]]
\* the keys of a std::map in iteration order
RECURSIVE SortedKeys(_)
SortedKeys(S) ==
  IF S = {} THEN <<>>
  ELSE LET m == CHOOSE a \in S : \A b \in S : a = b \/ LexLess(a, b)
       IN <<m>> \o SortedKeys(S \ {m})

\* -------------------------------------------------------------------- encoder
writeUint16BE(value) == <<(value \div 256) % 256, value % 256>>
writeUint32BE(value) == writeUint16BE(value[1]) \o writeUint16BE(value[2])
writeUint64BE(value) ==
  writeUint16BE(value[1]) \o writeUint16BE(value[2]) \o
  writeUint16BE(value[3]) \o writeUint16BE(value[4])
\* static_cast<uint32_t>(length) of a size_t below 2^31
U32(n) == <<n \div 65536, n % 65536>>

encodeString(text) ==
  LET length == BLen(text)
  IN (IF length <= 31 THEN <<160 + length>>
      ELSE IF length <= 255 THEN <<217, length>>
      ELSE IF length <= 65535 THEN <<218>> \o writeUint16BE(length)
      ELSE <<219>> \o writeUint32BE(U32(length))) \o text

\* mutation: every integer in the int 64 form
encodeIntWide(number) == <<211>> \o writeUint64BE(number)
encodeInt(number) ==
  IF I64Leq(I64(0), number) THEN
    IF U64Leq(number, I64(127)) THEN <<number[4] % 256>>
    ELSE IF U64Leq(number, I64(255)) THEN <<204, number[4] % 256>>
    ELSE IF U64Leq(number, I64(65535)) THEN <<205>> \o writeUint16BE(number[4])
    ELSE IF U64Leq(number, kUint32Max)
      THEN <<206>> \o writeUint32BE(<<number[3], number[4]>>)
    ELSE <<207>> \o writeUint64BE(number)
  ELSE IF I64Leq(I64(-32), number) THEN <<number[4] % 256>>
  ELSE IF I64Leq(I64(-128), number) THEN <<208, number[4] % 256>>
  ELSE IF I64Leq(I64(-32768), number) THEN <<209>> \o writeUint16BE(number[4])
  ELSE IF I64Leq(kInt32Min, number)
    THEN <<210>> \o writeUint32BE(<<number[3], number[4]>>)
  ELSE <<211>> \o writeUint64BE(number)

RECURSIVE encodeValue(_)
RECURSIVE encodeEntries(_, _)
RECURSIVE encodeElements(_)
encodeEntries(object, keys) ==
  IF keys = <<>> THEN <<>>
  ELSE encodeString(Head(keys)) \o encodeValue(object[Head(keys)])
       \o encodeEntries(object, Tail(keys))
encodeElements(array) ==
  IF array = <<>> THEN <<>>
  ELSE encodeValue(Head(array)) \o encodeElements(Tail(array))
encodeValue(value) ==
  CASE value.t = "nil" -> <<192>>
    [] value.t = "bool" -> IF value.v = <<1>> THEN <<195>> ELSE <<194>>
    [] value.t = "int" -> encodeInt(value.v)
    [] value.t = "float" -> <<203>> \o writeUint64BE(value.v)
    [] value.t = "str" -> encodeString(value.v)
    [] value.t = "map" ->
         LET length == Cardinality(DOMAIN value.v)
         IN (IF length <= 15 THEN <<128 + length>>
             ELSE IF length <= 65535 THEN <<222>> \o writeUint16BE(length)
             ELSE <<223>> \o writeUint32BE(U32(length)))
            \o encodeEntries(value.v, SortedKeys(DOMAIN value.v))
    [] value.t = "arr" ->
         LET length == Len(value.v)
         IN (IF length <= 15 THEN <<144 + length>>
             ELSE IF length <= 65535 THEN <<220>> \o writeUint16BE(length)
             ELSE <<221>> \o writeUint32BE(U32(length)))
            \o encodeElements(value.v)

\* -------------------------------------------------------------------- decoder
\* a normal return of a Decoder method (offset_ = off afterwards) and a throw
Ok(val, off) == [ok |-> TRUE, val |-> val, off |-> off, what |-> ""]
Throw(what, off) == [ok |-> FALSE, val |-> Nil, off |-> off, what |-> what]
\* the rest of a method after a call that may throw
Bind(r, F(_)) == IF r.ok THEN F(r) ELSE r

\* ensure(bytes) returns normally (offset_ + bytes <= data_.size())
ensure(data, offset, bytes) == ~(bytes > BLen(data) - offset)
\* a uint32_t length as a number; every length from 2^31 on exceeds any buffer
\* and is kept as 2^31 - 1
LengthOf(word) ==
  IF word[1] >= 32768 THEN 2147483647 ELSE word[1] * 65536 + word[2]

readByte(data, offset) ==
  IF ensure(data, offset, 1) THEN Ok(ByteAt(data, offset), offset + 1)
  ELSE Throw("unexpected end of MessagePack buffer", offset)
readUint8(data, offset) == readByte(data, offset)
readUint16(data, offset) ==
  IF ensure(data, offset, 2)
  THEN Ok(ByteAt(data, offset) * 256 + ByteAt(data, offset + 1), offset + 2)
  ELSE Throw("unexpected end of MessagePack buffer", offset)
readUint32(data, offset) ==
  IF ensure(data, offset, 4)
  THEN Ok(<<ByteAt(data, offset) * 256 + ByteAt(data, offset + 1),
            ByteAt(data, offset + 2) * 256 + ByteAt(data, offset + 3)>>,
          offset + 4)
  ELSE Throw("unexpected end of MessagePack buffer", offset)
readUint64(data, offset) ==
  IF ensure(data, offset, 8)
  THEN Ok(<<ByteAt(data, offset) * 256 + ByteAt(data, offset + 1),
            ByteAt(data, offset + 2) * 256 + ByteAt(data, offset + 3),
            ByteAt(data, offset + 4) * 256 + ByteAt(data, offset + 5),
            ByteAt(data, offset + 6) * 256 + ByteAt(data, offset + 7)>>,
          offset + 8)
  ELSE Throw("unexpected end of MessagePack buffer", offset)
readString(data, offset, length) ==
  IF ensure(data, offset, length)
  THEN Ok(MsgStr(BTake(BDrop(data, offset), length)), offset + length)
  ELSE Throw("unexpected end of MessagePack buffer", offset)

\* mutation: the int 8 form read without its sign
ZeroExtend8(raw) == <<0, 0, 0, raw>>
\* static_cast<int64_t>(static_cast<int8_t / int16_t / int32_t>(raw))
SignExtend8(raw) ==
  IF raw >= 128 THEN <<65535, 65535, 65535, 65280 + raw>> ELSE <<0, 0, 0, raw>>
SignExtend16(raw) ==
  IF raw >= 32768 THEN <<65535, 65535, 65535, raw>> ELSE <<0, 0, 0, raw>>
SignExtend32(raw) ==
  IF raw[1] >= 32768 THEN <<65535, 65535, raw[1], raw[2]>>
  ELSE <<0, 0, raw[1], raw[2]>>
\* the double a float32 pattern widens to (the float's pattern is the upper
\* half of the model's double pattern)
FloatFromBits(raw) == DoubleFromBits(<<raw[1], 0, 0, raw[2]>>)

\* the machine a Decoder runs on: how many elements the largest reserve() the
\* heap grants is for, and how many nested readValue calls the stack holds
Machine(elements, frames) == [elements |-> elements, frames |-> frames]
\* a machine that grants what the frames of the scripts ask for
Ample == Machine(2147483647, 2147483647)
\* the stack inside one more readValue call
Called(m) == [m EXCEPT !.frames = @ - 1]
\* the stack is exhausted: the process is killed, nothing is returned or thrown
Crash(off) == [ok |-> FALSE, val |-> Nil, off |-> off, what |-> "SIGSEGV"]
RECURSIVE readValue(_, _, _)
RECURSIVE readElements(_, _, _, _, _)
RECURSIVE readEntries(_, _, _, _, _)
\* for (uint32_t i = 0; i < length; ++i) values.push_back(readValue())
readElements(data, offset, length, values, m) ==
  IF length = 0 THEN Ok(MsgArr(values), offset)
  ELSE Bind(readValue(data, offset, m),
            LAMBDA e : readElements(data, e.off, length - 1, Append(values, e.val), m))
\* values.reserve(length) throws std::bad_alloc when the heap does not grant it
readArray(data, offset, length, m) ==
  IF length > m.elements THEN Throw("std::bad_alloc", offset)
  ELSE readElements(data, offset, length, <<>>, m)
\* the loop of readMap
readEntries(data, offset, length, object, m) ==
  IF length = 0 THEN Ok(MsgObj(object), offset)
  ELSE Bind(readValue(data, offset, m),
         LAMBDA key :
           IF key.val.t # "str"
           THEN Throw("MessagePack map key must be string", key.off)
           ELSE Bind(readValue(data, key.off, m),
                  LAMBDA e : readEntries(data, e.off, length - 1,
                                         ObjectPut(object, key.val.v, e.val), m)))
readMap(data, offset, length, m) == readEntries(data, offset, length, <<>>, m)
readValue(data, offset, m) ==
  IF m.frames = 0 THEN Crash(offset) ELSE
  Bind(readByte(data, offset), LAMBDA b :
    LET marker == b.val
        o == b.off
    IN
    IF marker <= 127 THEN Ok(MsgInt(<<0, 0, 0, marker>>), o)
    ELSE IF marker >= 224 THEN Ok(MsgInt(SignExtend8(marker)), o)
    ELSE IF marker \div 16 = 8 THEN readMap(data, o, marker % 16, Called(m))
    ELSE IF marker \div 16 = 9 THEN readArray(data, o, marker % 16, Called(m))
    ELSE IF marker \div 32 = 5 THEN readString(data, o, marker % 32)
    ELSE CASE marker = 192 -> Ok(Nil, o)
           [] marker = 194 -> Ok(MsgBool(FALSE), o)
           [] marker = 195 -> Ok(MsgBool(TRUE), o)
           [] marker = 204 ->
                Bind(readUint8(data, o), LAMBDA r : Ok(MsgInt(<<0, 0, 0, r.val>>), r.off))
           [] marker = 205 ->
                Bind(readUint16(data, o), LAMBDA r : Ok(MsgInt(<<0, 0, 0, r.val>>), r.off))
           [] marker = 206 ->
                Bind(readUint32(data, o),
                     LAMBDA r : Ok(MsgInt(<<0, 0, r.val[1], r.val[2]>>), r.off))
           [] marker = 207 ->
                Bind(readUint64(data, o), LAMBDA r :
                  IF U64Leq(r.val, kInt64Max) THEN Ok(MsgInt(r.val), r.off)
                  ELSE Ok(MsgDouble(Big), r.off))
           [] marker = 208 ->
                Bind(readUint8(data, o), LAMBDA r : Ok(MsgInt(SignExtend8(r.val)), r.off))
           [] marker = 209 ->
                Bind(readUint16(data, o), LAMBDA r : Ok(MsgInt(SignExtend16(r.val)), r.off))
           [] marker = 210 ->
                Bind(readUint32(data, o), LAMBDA r : Ok(MsgInt(SignExtend32(r.val)), r.off))
           [] marker = 211 ->
                Bind(readUint64(data, o), LAMBDA r : Ok(MsgInt(r.val), r.off))
           [] marker = 202 ->
                Bind(readUint32(data, o),
                     LAMBDA r : Ok(MsgDouble(FloatFromBits(r.val)), r.off))
           [] marker = 203 ->
                Bind(readUint64(data, o),
                     LAMBDA r : Ok(MsgDouble(DoubleFromBits(r.val)), r.off))
           [] marker = 217 ->
                Bind(readUint8(data, o), LAMBDA r : readString(data, r.off, r.val))
           [] marker = 218 ->
                Bind(readUint16(data, o), LAMBDA r : readString(data, r.off, r.val))
           [] marker = 219 ->
                Bind(readUint32(data, o),
                     LAMBDA r : readString(data, r.off, LengthOf(r.val)))
           [] marker = 220 ->
                Bind(readUint16(data, o), LAMBDA r : readArray(data, r.off, r.val, Called(m)))
           [] marker = 221 ->
                Bind(readUint32(data, o),
                     LAMBDA r : readArray(data, r.off, LengthOf(r.val), Called(m)))
           [] marker = 222 ->
                Bind(readUint16(data, o), LAMBDA r : readMap(data, r.off, r.val, Called(m)))
           [] marker = 223 ->
                Bind(readUint32(data, o),
                     LAMBDA r : readMap(data, r.off, LengthOf(r.val), Called(m)))
           [] OTHER -> Throw("unsupported MessagePack marker", o))
\* mutation: what follows the first value is not looked at
eofAnywhere(data, offset) == TRUE
\* Decoder::eof() at offset_ = offset
eof(data, offset) == offset >= BLen(data)

\* ------------------------------------------------------------ double arithmetic
\* std::isfinite(d)
isfinite(d) == d.k \in {"fin", "big", "nbig"}
\* a fixed-point result x, or the out-of-range marker when it leaves the range
Norm(x) ==
  IF x > MaxWhole * Unit THEN Big
  ELSE IF x < -(MaxWhole * Unit) THEN NBig
  ELSE Fin(x)
\* std::max(0.0, d): (0.0 < d) ? d : 0.0, so NaN gives 0.0
Max0(d) ==
  CASE d.k = "fin" -> IF 0 < d.x THEN d ELSE Fin(0)
    [] d.k \in {"inf", "big"} -> d
    [] OTHER -> Fin(0)
\* d + e for a finite fixed-point e
AddFin(d, e) == IF d.k = "fin" THEN Norm(d.x + e) ELSE d
\* d * static_cast<double>(kBeatsPerBar)
TimesBeatsPerBar(d) ==
  IF d.k # "fin" THEN d
  ELSE IF d.x > (MaxWhole * Unit) \div kBeatsPerBar THEN Big
  ELSE IF d.x < -((MaxWhole * Unit) \div kBeatsPerBar) THEN NBig
  ELSE Fin(d.x * kBeatsPerBar)
\* static_cast<int64_t>(d) of a double inside the int64_t range
TruncToI64(d) ==
  IF d.x >= 0 THEN I64(d.x \div Unit) ELSE I64(-((-d.x) \div Unit))
\* n + 1 for an int64_t n
I64Inc(n) ==
  IF n[4] < 65535 THEN <<n[1], n[2], n[3], n[4] + 1>>
  ELSE IF n[3] < 65535 THEN <<n[1], n[2], n[3] + 1, 0>>
  ELSE IF n[2] < 65535 THEN <<n[1], n[2] + 1, 0, 0>>
  ELSE <<(n[1] + 1) % 65536, 0, 0, 0>>
\* n % 16 for an int64_t n (the remainder has the sign of n)
I64Mod16(n) ==
  IF n[1] < 32768 \/ n[4] % 16 = 0 THEN I64(n[4] % 16) ELSE I64((n[4] % 16) - 16)

\* ------------------------------------------------------------- payload access
nullptr == [t |-> "nullptr", v |-> <<>>]
IsNull(value) == value.t = "nullptr"
getField(object, key) == IF key \in DOMAIN object THEN object[key] ELSE nullptr
\* asObject: the map behind the pointer, or nullptr
asObject(value) == IF value.t = "map" THEN value ELSE nullptr
asString(value, fallback) == IF value.t = "str" THEN value.v ELSE fallback
\* mutation: only an Int is read, a Float gives the fallback
asIntOnly(value, fallback, ub) == IF value.t = "int" THEN value.v ELSE fallback
\* ub: what a double-to-int64_t conversion of an out-of-range value yields
asInt(value, fallback, ub) ==
  CASE value.t = "int" -> value.v
    [] value.t = "float" ->
         LET decimal == DoubleFromBits(value.v)
         IN IF ~isfinite(decimal) THEN fallback
            ELSE IF decimal.k = "fin" THEN TruncToI64(decimal)
            ELSE ub
    [] OTHER -> fallback
asDouble(value, fallback) ==
  CASE value.t = "float" -> DoubleFromBits(value.v)
    [] value.t = "int" -> DoubleOfI64(value.v)
    [] OTHER -> fallback
asBool(value, fallback) ==
  CASE value.t = "bool" -> value.v = <<1>>
    [] value.t = "int" -> value.v # I64(0)
    [] value.t = "float" -> DoubleFromBits(value.v) # Fin(0)
    [] OTHER -> fallback

\* ------------------------------------------------------------ transport clock
\* mutation: a finite tempo is taken as it is
clampBpmFiniteOnly(bpm) == IF ~isfinite(bpm) THEN Fin(128 * Unit) ELSE bpm
clampBpm(bpm) ==
  IF ~isfinite(bpm) THEN Fin(128 * Unit)
  ELSE CASE bpm.k = "big" -> Fin(300 * Unit)
         [] bpm.k = "nbig" -> Fin(20 * Unit)
         [] bpm.x < 20 * Unit -> Fin(20 * Unit)
         [] bpm.x > 300 * Unit -> Fin(300 * Unit)
         [] OTHER -> bpm

\* TransportCore{}: the members' default initialisers, constructed at time now
TransportCore(now) ==
  [playing |-> FALSE, bpm |-> Fin(128 * Unit), offsetBeats |-> Fin(0),
   startedAt |-> now]
\* mutation: the position never moves
positionBeatsAtFrozen(tc, now) == Max0(tc.offsetBeats)
positionBeatsAt(tc, now) ==
  IF ~tc.playing THEN Max0(tc.offsetBeats)
  ELSE LET elapsedMs == now - tc.startedAt
           elapsedBeats == elapsedMs * (tc.bpm.x \div 60000)
       IN Max0(AddFin(tc.offsetBeats, elapsedBeats))
\* mutation: play() restarts a clock that is already playing
playRestarts(tc, now) == [tc EXCEPT !.startedAt = now, !.playing = TRUE]
play(tc, now) ==
  IF tc.playing THEN tc
  ELSE [tc EXCEPT !.startedAt = now, !.playing = TRUE]
\* mutation: pause() does not store the position
pauseForgets(tc, now) ==
  IF ~tc.playing THEN tc ELSE [tc EXCEPT !.startedAt = now, !.playing = FALSE]
pause(tc, now) ==
  IF ~tc.playing THEN tc
  ELSE [tc EXCEPT !.offsetBeats = positionBeatsAt(tc, now),
                  !.startedAt = now, !.playing = FALSE]
\* mutation: stop() keeps the offset
stopKeepsOffset(tc, now) == [tc EXCEPT !.playing = FALSE, !.startedAt = now]
stop(tc, now) ==
  [tc EXCEPT !.playing = FALSE, !.offsetBeats = Fin(0), !.startedAt = now]
\* mutation: the sought position is stored as it comes
seekToBeatsRaw(tc, nextPositionBeats, now) ==
  [tc EXCEPT !.offsetBeats = nextPositionBeats, !.startedAt = now]
\* mutation: the seek restarts the clock's reference but keeps the position
seekKeepsPosition(tc, nextPositionBeats, now) == [tc EXCEPT !.startedAt = now]
seekToBeats(tc, nextPositionBeats, now) ==
  [tc EXCEPT
     !.offsetBeats = Max0(IF isfinite(nextPositionBeats)
                          THEN nextPositionBeats ELSE Fin(0)),
     !.startedAt = now]
\* mutation: the tempo changes without folding the elapsed time
setBpmNoFold(tc, nextBpm, now) == [tc EXCEPT !.bpm = clampBpm(nextBpm)]
\* mutation: the tempo is stored unclamped
setBpmUnclamped(tc, nextBpm, now) ==
  IF tc.playing
  THEN [tc EXCEPT !.offsetBeats = positionBeatsAt(tc, now), !.startedAt = now,
                  !.bpm = nextBpm]
  ELSE [tc EXCEPT !.bpm = nextBpm]
setBpm(tc, nextBpm, now) ==
  LET clamped == clampBpm(nextBpm)
      folded == IF tc.playing
                THEN [tc EXCEPT !.offsetBeats = positionBeatsAt(tc, now),
                                !.startedAt = now]
                ELSE tc
  IN [folded EXCEPT !.bpm = clamped]
\* snapshot() at steady time now; the wall clock reads now as well
snapshot(tc, now, ub) ==
  LET positionBeats == positionBeatsAt(tc, now)
      inRange == positionBeats.k = "fin"
      positionBars == IF inRange THEN Fin(positionBeats.x \div kBeatsPerBar)
                      ELSE positionBeats
      bar == I64Inc(IF inRange THEN I64(positionBars.x \div Unit) ELSE ub)
      beat == IF inRange
              THEN I64(((positionBeats.x % (kBeatsPerBar * Unit)) \div Unit) + 1)
              ELSE I64(1)
      stepIndex ==
        IF inRange
        THEN I64((positionBeats.x \div (Unit \div kStepsPerBeat))
                   % (kBeatsPerBar * kStepsPerBeat))
        ELSE I64Mod16(ub)
      step == I64Inc(stepIndex)
  IN Object(<< <<Ascii["playing"], MsgBool(tc.playing)>>,
               <<Ascii["recording"], MsgBool(FALSE)>>,
               <<Ascii["bpm"], MsgDouble(tc.bpm)>>,
               <<Ascii["bar"], MsgInt(bar)>>,
               <<Ascii["beat"], MsgInt(beat)>>,
               <<Ascii["step"], MsgInt(step)>>,
               <<Ascii["stepIndex"], MsgInt(stepIndex)>>,
               <<Ascii["positionBars"], MsgDouble(positionBars)>>,
               <<Ascii["positionBeats"], MsgDouble(positionBeats)>>,
               <<Ascii["timestamp"], MsgInt(I64(now))>> >>)

\* -------------------------------------------------------------------- dispatcher
makeResponse(id, payload) ==
  MsgObj(Object(<< <<Ascii["type"], MsgStr(Ascii["response"])>>,
                   <<Ascii["id"], MsgInt(id)>>,
                   <<Ascii["ok"], MsgBool(TRUE)>>,
                   <<Ascii["payload"], MsgObj(payload)>> >>))
\* mutation: every error Response carries id 0
makeErrorResponseNoId(id, error) ==
  MsgObj(Object(<< <<Ascii["type"], MsgStr(Ascii["response"])>>,
                   <<Ascii["id"], MsgInt(I64(0))>>,
                   <<Ascii["ok"], MsgBool(FALSE)>>,
                   <<Ascii["error"], MsgStr(error)>> >>))
makeErrorResponse(id, error) ==
  MsgObj(Object(<< <<Ascii["type"], MsgStr(Ascii["response"])>>,
                   <<Ascii["id"], MsgInt(id)>>,
                   <<Ascii["ok"], MsgBool(FALSE)>>,
                   <<Ascii["error"], MsgStr(error)>> >>))
\* {"transport": transport.snapshot()}
TransportPayload(tc, now, ub) ==
  Object(<< <<Ascii["transport"], MsgObj(snapshot(tc, now, ub))>> >>)

\* mutation: position_bars is read before position_beats
SeekTargetBarsFirst(payload) ==
  IF IsNull(payload) THEN Fin(0)
  ELSE TimesBeatsPerBar(
         asDouble(getField(payload.v, Ascii["position_bars"]),
           asDouble(getField(payload.v, Ascii["position_beats"]), Fin(0))))
\* the position transport.seek reads from its payload
SeekTarget(payload) ==
  IF IsNull(payload) THEN Fin(0)
  ELSE asDouble(getField(payload.v, Ascii["position_beats"]),
         asDouble(getField(payload.v, Ascii["positionBeats"]),
           TimesBeatsPerBar(
             asDouble(getField(payload.v, Ascii["position_bars"]),
               TimesBeatsPerBar(
                 asDouble(getField(payload.v, Ascii["positionBars"]), Fin(0)))))))

\* vst:load in the build that links the stub backend
VstLoad(id, payload) ==
  IF IsNull(payload)
  THEN makeErrorResponse(id, Ascii["vst:load requires payload"])
  ELSE
    LET uid1 == asString(getField(payload.v, Ascii["plugin_uid"]), <<>>)
        uid2 == IF uid1 = <<>>
                THEN asString(getField(payload.v, Ascii["pluginUid"]), <<>>)
                ELSE uid1
        pluginUid == IF uid2 = <<>>
                     THEN asString(getField(payload.v, Ascii["name"]), <<>>)
                     ELSE uid2
    IN IF pluginUid = <<>>
       THEN makeErrorResponse(id, Ascii["vst:load requires plugin_uid"])
       ELSE makeErrorResponse(id, Ascii["vst:load requires STUU_ENABLE_TRACKTION=ON"])

\* what handleRequest returns and the clock it leaves
Reply(response, next) == [response |-> response, transport |-> next]
\* makeResponse(id, {"transport": transport.snapshot()}) after a clock operation
TransportReply(id, next, now, ub) ==
  Reply(makeResponse(id, TransportPayload(next, now, ub)), next)
\* mutation: the fallback is the default tempo, not the clock's
BpmTargetDefault(payload, tc) ==
  IF ~IsNull(payload)
  THEN asDouble(getField(payload.v, Ascii["bpm"]), Fin(128 * Unit))
  ELSE Fin(128 * Unit)
\* the bpm transport.set_bpm reads from its payload
BpmTarget(payload, tc) ==
  IF ~IsNull(payload)
  THEN asDouble(getField(payload.v, Ascii["bpm"]), tc.bpm)
  ELSE tc.bpm
\* mutation: a message that is no request starts the clock
NotARequestPlays(id, tc) ==
  Reply(makeErrorResponse(id, Ascii["message type must be 'request'"]),
        [tc EXCEPT !.playing = TRUE])
\* `if (type != "request")`: the rejection
NotARequest(id, tc) ==
  Reply(makeErrorResponse(id, Ascii["message type must be 'request'"]), tc)
\* mutation: the fallthrough without the cmd in its message
UnknownCmdBare(id, cmd, tc) ==
  [response |-> makeErrorResponse(id, Ascii["unknown cmd: "]), transport |-> tc]
\* the fallthrough after the last handler
UnknownCmd(id, cmd, tc) ==
  Reply(makeErrorResponse(id, Ascii["unknown cmd: "] \o cmd), tc)
\* handleRequest once id, type, cmd and payload are read.
\* g_useTracktionTransport is false (the stub backend is linked).
Dispatch(id, type, cmd, payload, tc, now, ub) ==
  IF type # Ascii["request"]
  THEN NotARequest(id, tc)
  ELSE
  CASE cmd = Ascii["transport.get_state"] -> TransportReply(id, tc, now, ub)
    [] cmd \in {Ascii["transport.ensure-context"], Ascii["transport:ensure-context"]} ->
         Reply(makeResponse(id, <<>>), tc)
    [] cmd \in {Ascii["transport.play"], Ascii["transport.record"]} ->
         TransportReply(id, play(tc, now), now, ub)
    [] cmd = Ascii["transport.pause"] -> TransportReply(id, pause(tc, now), now, ub)
    [] cmd = Ascii["transport.stop"] -> TransportReply(id, stop(tc, now), now, ub)
    [] cmd = Ascii["transport.set_bpm"] ->
         TransportReply(id, setBpm(tc, BpmTarget(payload, tc), now), now, ub)
    [] cmd = Ascii["transport.seek"] ->
         TransportReply(id, seekToBeats(tc, SeekTarget(payload), now), now, ub)
    [] cmd = Ascii["edit:reset"] ->
         Reply(makeErrorResponse(id, Ascii["edit:reset requires STUU_ENABLE_TRACKTION=ON"]), tc)
    [] cmd = Ascii["backend.info"] ->
         Reply(makeResponse(id, Object(<< <<Ascii["tracktion"], MsgBool(FALSE)>> >>)), tc)
    [] cmd = Ascii["health.ping"] ->
         Reply(makeResponse(id, Object(<< <<Ascii["pong"], MsgBool(TRUE)>> >>)), tc)
    [] cmd = Ascii["vst:scan"] ->
         Reply(makeErrorResponse(id, Ascii["vst:scan requires STUU_ENABLE_TRACKTION=ON"]), tc)
    [] cmd = Ascii["vst:load"] -> Reply(VstLoad(id, payload), tc)
    [] OTHER -> UnknownCmd(id, cmd, tc)
\* handleRequest(request, transport) at time now: the Response and the clock
\* afterwards
handleRequest(request, tc, now, ub) ==
  Dispatch(asInt(getField(request, Ascii["id"]), I64(0), ub),
           asString(getField(request, Ascii["type"]), <<>>),
           asString(getField(request, Ascii["cmd"]), <<>>),
           asObject(getField(request, Ascii["payload"])),
           tc, now, ub)

\* makeTickEvent(transport) with g_useTracktionTransport false
makeTickEvent(tc, now, ub) ==
  MsgObj(Object(<< <<Ascii["type"], MsgStr(Ascii["event"])>>,
                   <<Ascii["event"], MsgStr(Ascii["transport.tick"])>>,
                   <<Ascii["payload"], MsgObj(snapshot(tc, now, ub))>> >>))

\* ----------------------------------------------------------------------- framing
\* sendFrame(fd, message): "ok" (header and body written), "size" (the encoded
\* body exceeds kMaxFrameSize, nothing written) or "io" (send failed)
sendFrame(message, peerOpen) ==
  LET body == encodeValue(message)
  IN IF BLen(body) > kMaxFrameSize THEN "size"
     ELSE IF peerOpen THEN "ok" ELSE "io"

\* mutation: no frame size is refused
FrameTooLargeNever(buffer) == FALSE
\* mutation: frameSize >= kMaxFrameSize
FrameTooLargeOrEqual(buffer) ==
  \/ ByteAt(buffer, 0) >= 128
  \/ ByteAt(buffer, 0) * 16777216 + ByteAt(buffer, 1) * 65536
       + ByteAt(buffer, 2) * 256 + ByteAt(buffer, 3) >= kMaxFrameSize
\* the 32-bit frameSize exceeds kMaxFrameSize (a first byte >= 0x80 alone does)
FrameTooLarge(buffer) ==
  \/ ByteAt(buffer, 0) >= 128
  \/ ByteAt(buffer, 0) * 16777216 + ByteAt(buffer, 1) * 65536
       + ByteAt(buffer, 2) * 256 + ByteAt(buffer, 3) > kMaxFrameSize
frameSizeOf(buffer) ==
  ByteAt(buffer, 0) * 16777216 + ByteAt(buffer, 1) * 65536
    + ByteAt(buffer, 2) * 256 + ByteAt(buffer, 3)

\* the try block of processIncomingBuffer once readValue() has returned or
\* thrown: the Response to the frame, and the clock afterwards
Decoded(decoded, frame, tc, now, ub) ==
  IF ~decoded.ok
  THEN Reply(makeErrorResponse(I64(0), Ascii["decode error: "] \o Ascii[decoded.what]), tc)
  ELSE IF ~eof(frame, decoded.off)
  THEN Reply(makeErrorResponse(I64(0), Ascii["unexpected trailing bytes"]), tc)
  ELSE IF IsNull(asObject(decoded.val))
  THEN Reply(makeErrorResponse(I64(0), Ascii["frame root must be map"]), tc)
  ELSE handleRequest(decoded.val.v, tc, now, ub)
\* the Response to one extracted frame, and the clock afterwards
FrameReply(frame, tc, now, ub) == Decoded(readValue(frame, 0, Ample), frame, tc, now, ub)

\* processIncomingBuffer(buffer, clientFd, transport): its return value, the
\* buffer and the clock afterwards, the bodies extracted and the frames written
\* (in order), and why a sendFrame failed if one did
RECURSIVE processIncomingBuffer(_, _, _, _, _, _)
\* mutation: the frames of one read are answered last first
SentLastFirst(sent, reply, frame, rest, now, ub, peerOpen, done) ==
  IF sent # "ok"
  THEN [ret |-> FALSE, buffer |-> rest, transport |-> reply.transport,
        bodies |-> Append(done.bodies, frame), written |-> done.written,
        fail |-> sent]
  ELSE processIncomingBuffer(rest, reply.transport, now, ub, peerOpen,
         [bodies |-> Append(done.bodies, frame),
          written |-> <<reply.response>> \o done.written])
\* after sendFrame(clientFd, response) has returned sent
Sent(sent, reply, frame, rest, now, ub, peerOpen, done) ==
  IF sent # "ok"
  THEN [ret |-> FALSE, buffer |-> rest, transport |-> reply.transport,
        bodies |-> Append(done.bodies, frame), written |-> done.written,
        fail |-> sent]
  ELSE processIncomingBuffer(rest, reply.transport, now, ub, peerOpen,
         [bodies |-> Append(done.bodies, frame),
          written |-> Append(done.written, reply.response)])
\* after the frame has been answered with reply
Replied(reply, frame, rest, now, ub, peerOpen, done) ==
  Sent(sendFrame(reply.response, peerOpen), reply, frame, rest, now, ub,
       peerOpen, done)
\* after frame has been copied out of the buffer and erased from it
Extracted(frame, rest, tc, now, ub, peerOpen, done) ==
  Replied(FrameReply(frame, tc, now, ub), frame, rest, now, ub, peerOpen, done)
\* frameSize > kMaxFrameSize
Rejected(error, buffer, tc, peerOpen, done) ==
  [ret |-> FALSE, buffer |-> buffer, transport |-> tc, bodies |-> done.bodies,
   written |-> IF sendFrame(error, peerOpen) = "ok"
               THEN Append(done.written, error) ELSE done.written,
   fail |-> "large"]
\* mutation: the bytes of the incomplete frame are dropped
WaitingConsumes(buffer, tc, done) ==
  [ret |-> TRUE, buffer |-> <<>>, transport |-> tc, bodies |-> done.bodies,
   written |-> done.written, fail |-> ""]
\* return true with the buffer as it is
Waiting(buffer, tc, done) ==
  [ret |-> TRUE, buffer |-> buffer, transport |-> tc, bodies |-> done.bodies,
   written |-> done.written, fail |-> ""]
processIncomingBuffer(buffer, tc, now, ub, peerOpen, done) ==
  IF BLen(buffer) < kFrameHeaderBytes THEN Waiting(buffer, tc, done)
  ELSE IF FrameTooLarge(buffer)
  THEN Rejected(makeErrorResponse(I64(0), Ascii["frame too large"]),
                buffer, tc, peerOpen, done)
  ELSE IF BLen(buffer) < kFrameHeaderBytes + frameSizeOf(buffer)
  THEN Waiting(buffer, tc, done)
  ELSE Extracted(BTake(BDrop(buffer, kFrameHeaderBytes), frameSizeOf(buffer)),
                 BDrop(buffer, kFrameHeaderBytes + frameSizeOf(buffer)),
                 tc, now, ub, peerOpen, done)


\* ------------------------------------------------------------------ the client
\* a frame as the client writes it: 4-byte big-endian length, then the body
ClientFrame(body) == writeUint32BE(U32(BLen(body))) \o body
Request(id, cmd) ==
  MsgObj(Object(<< <<Ascii["type"], MsgStr(Ascii["request"])>>,
                   <<Ascii["id"], id>>,
                   <<Ascii["cmd"], cmd>> >>))
RequestWith(id, cmd, payload) ==
  MsgObj(Object(<< <<Ascii["type"], MsgStr(Ascii["request"])>>,
                   <<Ascii["id"], id>>,
                   <<Ascii["cmd"], cmd>>,
                   <<Ascii["payload"], MsgObj(payload)>> >>))
Cmd(name) == MsgStr(Ascii[name])
Id(n) == MsgInt(I64(n))
Float(d) == MsgDouble(d)
Payload(key, value) == Object(<< <<Ascii[key], value>> >>)

\* well-formed requests on the transport clock
TransportRequests ==
  {Request(Id(1), Cmd("transport.get_state")),
   Request(Id(1), Cmd("transport.play")),
   Request(Id(1), Cmd("transport.record")),
   Request(Id(1), Cmd("transport.pause")),
   Request(Id(1), Cmd("transport.stop")),
   Request(Id(1), Cmd("transport.seek")),
   RequestWith(Id(1), Cmd("transport.seek"), Payload("position_beats", Id(4))),
   RequestWith(Id(1), Cmd("transport.seek"), Payload("position_beats", Id(0))),
   RequestWith(Id(1), Cmd("transport.seek"), Payload("position_beats", Float(Fin((5 * Unit) \div 2)))),
   RequestWith(Id(1), Cmd("transport.seek"), Payload("position_beats", Id(-3))),
   RequestWith(Id(1), Cmd("transport.seek"), Payload("position_bars", Id(2))),
   RequestWith(Id(1), Cmd("transport.seek"),
               Object(<< <<Ascii["position_beats"], Id(1)>>,
                         <<Ascii["position_bars"], Id(2)>> >>)),
   Request(Id(1), Cmd("transport.set_bpm")),
   RequestWith(Id(1), Cmd("transport.set_bpm"), Payload("bpm", Id(120))),
   RequestWith(Id(1), Cmd("transport.set_bpm"), Payload("bpm", Id(10))),
   RequestWith(Id(1), Cmd("transport.set_bpm"), Payload("bpm", Cmd("a")))}
\* requests to the other handlers, with and without what they require
OtherRequests ==
  {Request(Id(1), Cmd("health.ping")),
   Request(Id(0), Cmd("backend.info")),
   Request(Id(-1), Cmd("transport.ensure-context")),
   Request(MsgInt(kInt64Max), Cmd("edit:reset")),
   Request(Id(7), Cmd("vst:scan")),
   Request(Id(7), Cmd("vst:load")),
   RequestWith(Id(7), Cmd("vst:load"), <<>>),
   RequestWith(Id(7), Cmd("vst:load"), Payload("plugin_uid", Cmd("a")))}
\* requests no handler matches: an unknown, an absent and a non-string cmd
UnknownRequests ==
  {Request(Id(7), Cmd("bogus")),
   Request(Id(7), Cmd("")),
   Request(Id(7), Id(5)),
   MsgObj(Object(<< <<Ascii["type"], MsgStr(Ascii["request"])>>,
                    <<Ascii["id"], Id(7)>> >>)),
   MsgObj(Object(<< <<Ascii["type"], MsgStr(Ascii["request"])>>,
                    <<Ascii["cmd"], Cmd("transport.play")>>,
                    <<Ascii["payload"], Id(3)>>,
                    <<Ascii["a"], Id(3)>> >>))}
\* maps that are not requests: type absent, wrong-typed or another string,
\* with an integer, a fractional, a non-finite, a string and no id
NonRequests ==
  {MsgObj(Object(<< <<Ascii["id"], Id(7)>>,
                    <<Ascii["cmd"], Cmd("transport.play")>> >>)),
   MsgObj(Object(<< <<Ascii["type"], Id(1)>>, <<Ascii["id"], Id(7)>>,
                    <<Ascii["cmd"], Cmd("transport.play")>> >>)),
   MsgObj(Object(<< <<Ascii["type"], MsgStr(Ascii["response"])>>,
                    <<Ascii["id"], Id(-1)>>,
                    <<Ascii["cmd"], Cmd("transport.seek")>>,
                    <<Ascii["payload"], MsgObj(Payload("position_beats", Id(4)))>> >>)),
   MsgObj(Object(<< <<Ascii["type"], MsgStr(Ascii["event"])>>,
                    <<Ascii["id"], Float(Fin((5 * Unit) \div 2))>>,
                    <<Ascii["cmd"], Cmd("transport.play")>> >>)),
   MsgObj(Object(<< <<Ascii["type"], Nil>>, <<Ascii["id"], Float(NaN)>>,
                    <<Ascii["cmd"], Cmd("transport.stop")>> >>)),
   MsgObj(Object(<< <<Ascii["type"], MsgStr(Ascii["event"])>>,
                    <<Ascii["id"], Cmd("a")>>,
                    <<Ascii["cmd"], Cmd("transport.set_bpm")>>,
                    <<Ascii["payload"], MsgObj(Payload("bpm", Id(120)))>> >>)),
   MsgObj(Object(<< <<Ascii["type"], MsgStr(Ascii["event"])>>,
                    <<Ascii["cmd"], Cmd("transport.play")>> >>)),
   MsgObj(<<>>)}
\* bodies that do not decode to one map: empty, truncated, unsupported tag,
\* non-string key, trailing bytes after a complete request, non-map roots
MalformedBodies ==
  {<<>>,
   <<129, 162, 105>>,
   <<193>>,
   <<129, 1, 2>>,
   encodeValue(Request(Id(1), Cmd("transport.play"))) \o <<192>>,
   <<192>>,
   encodeValue(MsgArr(<<Request(Id(1), Cmd("transport.play"))>>))}
\* transport requests with malformed, non-finite and out-of-range input
TolerantRequests ==
  {RequestWith(Id(1), Cmd("transport.set_bpm"), <<>>),
   RequestWith(Id(1), Cmd("transport.set_bpm"), Payload("bpm", Nil)),
   RequestWith(Id(1), Cmd("transport.set_bpm"), Payload("bpm", MsgBool(TRUE))),
   RequestWith(Id(1), Cmd("transport.set_bpm"), Payload("bpm", MsgObj(Payload("bpm", Id(120))))),
   RequestWith(Id(1), Cmd("transport.set_bpm"), Payload("bpm", MsgArr(<<Id(120)>>))),
   RequestWith(Id(1), Cmd("transport.set_bpm"), Payload("bpm", Float(NaN))),
   RequestWith(Id(1), Cmd("transport.set_bpm"), Payload("bpm", Float(PInf))),
   RequestWith(Id(1), Cmd("transport.set_bpm"), Payload("bpm", Float(NInf))),
   RequestWith(Id(1), Cmd("transport.set_bpm"), Payload("bpm", Id(1000))),
   RequestWith(Id(1), Cmd("transport.set_bpm"), Payload("bpm", Id(-5))),
   RequestWith(Id(1), Cmd("transport.set_bpm"), Payload("bpm", Float(Big))),
   RequestWith(Id(1), Cmd("transport.seek"), <<>>),
   RequestWith(Id(1), Cmd("transport.seek"), Payload("position_beats", Float(NaN))),
   RequestWith(Id(1), Cmd("transport.seek"), Payload("position_beats", Float(PInf))),
   RequestWith(Id(1), Cmd("transport.seek"), Payload("position_beats", Float(Big))),
   RequestWith(Id(1), Cmd("transport.seek"), Payload("position_bars", Id(-1))),
   RequestWith(Id(1), Cmd("transport.seek"), Payload("position_bars", Float(Fin((3 * Unit) \div 2)))),
   RequestWith(Id(1), Cmd("transport.seek"), Payload("position_bars", Cmd("a"))),
   RequestWith(Id(1), Cmd("transport.seek"),
               Object(<< <<Ascii["position_beats"], Float(NaN)>>,
                         <<Ascii["position_bars"], Id(2)>> >>)),
   RequestWith(Id(1), Cmd("transport.seek"),
               Object(<< <<Ascii["position_beats"], Cmd("a")>>,
                         <<Ascii["position_bars"], Id(2)>> >>)),
   RequestWith(Id(1), Cmd("transport.seek"),
               Object(<< <<Ascii["positionBeats"], Id(3)>>,
                         <<Ascii["position_bars"], Id(2)>> >>)),
   RequestWith(Id(1), Cmd("transport.seek"), Payload("positionBeats", Id(3))),
   RequestWith(Id(1), Cmd("transport.seek"), Payload("positionBars", Id(2))),
   RequestWith(Id(1), Cmd("transport.pause"), Payload("bpm", Id(120))),
   RequestWith(Id(1), Cmd("transport.get_state"), <<>>)}
Requests ==
  TransportRequests \cup TolerantRequests \cup OtherRequests
    \cup UnknownRequests \cup NonRequests
\* what the first frame of a connection carries: every kind of body that does
\* not decode to one map, and requests that succeed, that name no handler,
\* that fail validation, that the backend refuses and that are no request
FirstBodies ==
  MalformedBodies \cup
  {encodeValue(r) : r \in
     {Request(Id(1), Cmd("transport.play")),
      Request(Id(1), Cmd("transport.stop")),
      RequestWith(Id(1), Cmd("transport.seek"), Payload("position_beats", Id(4))),
      RequestWith(Id(1), Cmd("transport.seek"),
                  Payload("position_beats", Float(Fin((5 * Unit) \div 2)))),
      RequestWith(Id(1), Cmd("transport.set_bpm"), Payload("bpm", Id(120))),
      Request(Id(1), Cmd("health.ping")),
      Request(Id(0), Cmd("backend.info")),
      Request(Id(7), Cmd("bogus")),
      Request(Id(7), Cmd("vst:load")),
      Request(Id(7), Cmd("vst:scan")),
      MsgObj(Object(<< <<Ascii["type"], MsgStr(Ascii["event"])>>,
                       <<Ascii["id"], Id(7)>>,
                       <<Ascii["cmd"], Cmd("transport.play")>> >>))}}
\* what the client sends next
NextBodies == {encodeValue(Request(Id(2), Cmd("transport.get_state")))}
\* a script: the frames a client sends on one connection
Scripts ==
  {<<ClientFrame(b), ClientFrame(c)>> : b \in FirstBodies, c \in NextBodies}
\* what the client of a later connection sends
LaterScripts ==
  {<<ClientFrame(encodeValue(Request(Id(3), Cmd("transport.get_state"))))>>}

\* ------------------------------------------------------- bounds of the runs
\* a chunk may end after each of the first SplitWindow bytes of a frame (and
\* one byte before and exactly at its end)
SplitWindow == 4
\* the worker's clock is followed up to MaxTime ms
MaxTime == 40
\* connections accepted in one run
MaxConns == 2
\* the clock alone is followed up to MaxClockTime ms
MaxClockTime == 1500

\* ------------------------------------------------------------------ variables
VARIABLES
  g_running,    \* std::atomic<bool> g_running
  pc,           \* where the socket thread is: "top", "accept", "loop", "exit"
  transport,    \* TransportCore transport (main)
  now,          \* the steady clock, in ms
  nextTick,     \* nextTick of the current connection
  readBuffer,   \* readBuffer of the current connection
  out,          \* the frames written to the current client, in order
  wire,         \* bytes the client sends that recv() has not returned yet
  peer,         \* "open" or "closed": the client's end of the socket
  script,       \* the frames the current client sends
  delivered,    \* how many of their bytes recv() has returned
  cuts,         \* the byte counts at which a recv() may end
  bodies,       \* the frame bodies extracted on the current connection
  closed,       \* why the last connection loop ended ("" while it runs)
  conns,        \* connections accepted so far
  request, before, response,   \* one handleRequest call and its result
  cpc, cval, cbytes, cres,     \* one encodeValue / readValue round
  op,           \* the last operation on the clock alone, and its argument
  held,         \* the position a pause or a stop left the clock at
  part,         \* what sendFrame is writing: "header" or "body"
  spc,          \* where sendAll is: "send", "sleep", or returned "true"/"false"
  bodySize,     \* body.size() of the frame being written
  sizeBytes,    \* size of the running sendAll
  sentBytes,    \* sent of the running sendAll
  room,         \* free bytes in the socket's send buffer
  reader,       \* the peer: "reading", "stalled" or "gone"
  errno,        \* errno of the last failed send()
  g_useTracktionTransport,   \* static bool g_useTracktionTransport
  gState,       \* the backend's edit and its transport, or NoEdit
  mm,           \* the message thread: "idle" (dispatching), "busy", "crashed"
  queued,       \* the lambdas callAsync has queued and the message thread not run
  ran,          \* the backend calls of the last handler, in order
  tick,         \* the last tick Event made with the backend linked
  touched       \* objects of returned callers that late lambdas have used
svars == <<g_running, pc, transport, now, nextTick, readBuffer, out, wire,
           peer, script, delivered, cuts, bodies, closed, conns>>
dvars == <<request, before, response>>
cvars == <<cpc, cval, cbytes, cres>>
kvars == <<op, held>>
nvars == <<part, spc, bodySize, sizeBytes, sentBytes, room, reader, errno>>
bvars == <<g_useTracktionTransport, gState, mm, queued, ran, tick, touched>>
vars == <<svars, dvars, cvars, kvars, nvars, bvars>>

\* the variables of the other specifications, at rest
ServerIdle ==
  /\ g_running = TRUE /\ pc = "idle" /\ transport = TransportCore(0)
  /\ now = 0 /\ nextTick = 0 /\ readBuffer = <<>> /\ out = <<>>
  /\ wire = <<>> /\ peer = "closed" /\ script = <<>> /\ delivered = 0
  /\ cuts = {} /\ bodies = <<>> /\ closed = "" /\ conns = 0
DispatchIdle == request = <<>> /\ before = TransportCore(0) /\ response = Nil
CodecIdle == cpc = "idle" /\ cval = Nil /\ cbytes = <<>> /\ cres = Throw("", 0)
\* no position is held
NoHold == [by |-> "", pos |-> Fin(0)]
ClockIdle == op = [name |-> "", arg |-> Fin(0)] /\ held = NoHold
SendIdle ==
  /\ part = "" /\ spc = "idle" /\ bodySize = 0 /\ sizeBytes = 0 /\ sentBytes = 0
  /\ room = 0 /\ reader = "gone" /\ errno = ""
\* no edit is loaded: !gState || !gState->edit
NoEdit ==
  [loaded |-> FALSE, playing |-> FALSE, shouldPlay |-> FALSE,
   position |-> Fin(0), bpm |-> Fin(0)]
BackendIdle ==
  /\ g_useTracktionTransport = FALSE /\ gState = NoEdit /\ mm = "idle"
  /\ queued = <<>> /\ ran = <<>> /\ tick = Nil /\ touched = {}
\* ---------------------------------------------- the codec on bounded inputs
\* int64_t values on both sides of every boundary encodeInt tests
CodecInts ==
  {I64(0), I64(1), I64(127), I64(128), I64(255), I64(256), I64(65535),
   I64(65536), kUint32Max, <<0, 1, 0, 0>>, kInt64Max,
   I64(-1), I64(-32), I64(-33), I64(-128), I64(-129), I64(-32768),
   I64(-32769), kInt32Min, <<65535, 65535, 32767, 65535>>, kInt64Min}
\* strings on both sides of every boundary encodeString tests
CodecStrings ==
  {<<>>, Ascii["a"], Ascii["transport.seek"], <<-31>>, <<-32>>, <<-255>>,
   <<-256>>, <<-65535>>, <<-65536>>, <<97, -1048553>>}
CodecDoubles == {Fin(0), Fin(4 * Unit), Fin(-Unit), NaN, PInf, NInf, Big, NBig}
CodecScalars ==
  {Nil, MsgBool(FALSE), MsgBool(TRUE)}
    \cup {MsgInt(x) : x \in CodecInts}
    \cup {MsgStr(s) : s \in CodecStrings}
    \cup {MsgDouble(d) : d \in CodecDoubles}
\* arrays and maps on both sides of the fixarray / fixmap boundary
CodecWide ==
  {MsgArr([i \in 1..n |-> Nil]) : n \in {15, 16}}
    \cup {MsgObj([key \in {<<96 + i>> : i \in 1..n} |-> MsgInt(I64(-1))]) : n \in {15, 16}}
CodecKeys == {<<96 + i>> : i \in 1..MaxArr}
CodecSeqs(S) == UNION {[1..n -> S] : n \in 0..MaxArr}
CodecMaps(S) == UNION {[ks -> S] : ks \in SUBSET CodecKeys}
CodecInner ==
  LET base == {Nil, MsgInt(I64(300)), MsgStr(Ascii["a"])}
  IN base \cup {MsgArr(<<>>), MsgObj(<<>>)}
          \cup {MsgArr(<<b>>) : b \in base}
          \cup {MsgObj([key \in {Ascii["id"]} |-> b]) : b \in base}
CodecOuter ==
  {MsgArr(a) : a \in CodecSeqs(CodecInner)} \cup {MsgObj(o) : o \in CodecMaps(CodecInner)}
CodecDeep ==
  {MsgArr(<<v, Nil>>) : v \in CodecOuter}
    \cup {MsgObj([key \in {Ascii["payload"]} |-> v]) : v \in CodecOuter}
CodecValues == CodecScalars \cup CodecWide \cup CodecOuter \cup CodecDeep

CodecInit ==
  /\ cpc = "value"
  /\ cval \in CodecValues
  /\ cbytes = <<>>
  /\ cres = Throw("", 0)
  /\ ServerIdle /\ DispatchIdle /\ ClockIdle /\ SendIdle /\ BackendIdle
\* std::vector<uint8_t> body; encodeValue(message, body)
CodecEncode ==
  /\ cpc = "value"
  /\ cbytes' = encodeValue(cval)
  /\ cpc' = "bytes"
  /\ UNCHANGED <<cval, cres, svars, dvars, kvars, nvars, bvars>>
\* Decoder decoder(frame); decoder.readValue()
CodecDecode ==
  /\ cpc = "bytes"
  /\ cres' = readValue(cbytes, 0, Ample)
  /\ cpc' = "decoded"
  /\ UNCHANGED <<cval, cbytes, svars, dvars, kvars, nvars, bvars>>
CodecNext == CodecEncode \/ CodecDecode
SpecCodec == CodecInit /\ [][CodecNext]_vars


\* ------------------------------------------------------------ the socket thread
Min(a, b) == IF a <= b THEN a ELSE b
RECURSIVE Concat(_)
Concat(frames) ==
  IF frames = <<>> THEN <<>> ELSE BCat(Head(frames), Concat(Tail(frames)))
RECURSIVE CutPoints(_, _)
CutPoints(frames, start) ==
  IF frames = <<>> THEN {}
  ELSE LET len == BLen(Head(frames))
       IN {start + j : j \in 1..SplitWindow}
            \cup {start + len - 1, start + len}
            \cup CutPoints(Tail(frames), start + len)
\* the leading bytes of s written out one by one
Literal(s) ==
  LET runs == {i \in DOMAIN s : s[i] < 0}
  IN IF runs = {} THEN Len(s) ELSE (CHOOSE i \in runs : \A j \in runs : i <= j) - 1
\* the byte counts one recv(clientFd, chunk.data(), chunk.size(), 0) may
\* return: at most the kChunkBytes of chunk, ending at a cut (filler is
\* received in chunks as large as they can be)
RecvSizes ==
  IF wire = <<>> THEN {}
  ELSE IF Literal(wire) = 0 THEN {Min(kChunkBytes, -Head(wire))}
  ELSE LET most == Min(kChunkBytes, Literal(wire))
       IN {n \in 1..most : n = most \/ delivered + n \in cuts}

Init ==
  /\ g_running = TRUE
  /\ pc = "top"
  /\ transport = TransportCore(0)
  /\ now = 0 /\ nextTick = 0
  /\ readBuffer = <<>> /\ out = <<>>
  /\ wire = <<>> /\ peer = "closed"
  /\ script = <<>> /\ delivered = 0 /\ cuts = {} /\ bodies = <<>>
  /\ closed = "" /\ conns = 0
  /\ DispatchIdle /\ CodecIdle /\ ClockIdle /\ SendIdle /\ BackendIdle

\* while (g_running) of the socket thread: entered
WhileRunning ==
  /\ pc = "top" /\ g_running
  /\ pc' = "accept"
  /\ UNCHANGED <<g_running, transport, now, nextTick, readBuffer, out, wire,
                 peer, script, delivered, cuts, bodies, closed, conns,
                 dvars, cvars, kvars, nvars, bvars>>
\* while (g_running) of the socket thread: left, the thread ends
WhileStopped ==
  /\ pc = "top" /\ ~g_running
  /\ pc' = "exit"
  /\ UNCHANGED <<g_running, transport, now, nextTick, readBuffer, out, wire,
                 peer, script, delivered, cuts, bodies, closed, conns,
                 dvars, cvars, kvars, nvars, bvars>>
\* mutation: one read buffer serves every connection
AcceptKeepsBuffer(s) ==
  /\ pc = "accept" /\ conns < MaxConns
  /\ pc' = "loop"
  /\ nextTick' = now
  /\ out' = <<>> /\ bodies' = <<>> /\ closed' = ""
  /\ script' = s /\ wire' = Concat(s) /\ delivered' = 0
  /\ cuts' = CutPoints(s, 0)
  /\ peer' = "open"
  /\ conns' = conns + 1
  /\ UNCHANGED <<g_running, transport, now, readBuffer,
                 dvars, cvars, kvars, nvars, bvars>>
\* mutation: every connection starts with a fresh clock
AcceptFresh(s) ==
  /\ pc = "accept" /\ conns < MaxConns
  /\ pc' = "loop"
  /\ readBuffer' = <<>>
  /\ nextTick' = now
  /\ out' = <<>> /\ bodies' = <<>> /\ closed' = ""
  /\ script' = s /\ wire' = Concat(s) /\ delivered' = 0
  /\ cuts' = CutPoints(s, 0)
  /\ peer' = "open"
  /\ conns' = conns + 1
  /\ transport' = TransportCore(now)
  /\ UNCHANGED <<g_running, now, dvars, cvars, kvars, nvars, bvars>>
\* accept() returns a client that will send the frames of s
Accept(s) ==
  /\ pc = "accept" /\ conns < MaxConns
  /\ pc' = "loop"
  /\ readBuffer' = <<>>
  /\ nextTick' = now
  /\ out' = <<>> /\ bodies' = <<>> /\ closed' = ""
  /\ script' = s /\ wire' = Concat(s) /\ delivered' = 0
  /\ cuts' = CutPoints(s, 0)
  /\ peer' = "open"
  /\ conns' = conns + 1
  /\ UNCHANGED <<g_running, transport, now,
                 dvars, cvars, kvars, nvars, bvars>>
\* accept() fails with EINTR: continue
AcceptInterrupted ==
  /\ pc = "accept"
  /\ pc' = "top"
  /\ UNCHANGED <<g_running, transport, now, nextTick, readBuffer, out, wire,
                 peer, script, delivered, cuts, bodies, closed, conns,
                 dvars, cvars, kvars, nvars, bvars>>
\* accept() fails otherwise: break
AcceptFailed ==
  /\ pc = "accept"
  /\ pc' = "exit"
  /\ UNCHANGED <<g_running, transport, now, nextTick, readBuffer, out, wire,
                 peer, script, delivered, cuts, bodies, closed, conns,
                 dvars, cvars, kvars, nvars, bvars>>

\* break out of the connection loop, close(clientFd)
Close(why) == pc' = "top" /\ closed' = why
\* mutation: the next tick is due at once
TickEager(event, t, written) ==
  IF sendFrame(event, peer = "open") # "ok"
  THEN Close("io") /\ out' = written /\ UNCHANGED nextTick
  ELSE /\ out' = Append(written, event)
       /\ nextTick' = t
       /\ UNCHANGED <<pc, closed>>
\* sendFrame(clientFd, makeTickEvent(transport)) and what follows it
Tick(event, t, written) ==
  IF sendFrame(event, peer = "open") # "ok"
  THEN Close("io") /\ out' = written /\ UNCHANGED nextTick
  ELSE /\ out' = Append(written, event)
       /\ nextTick' = t + kTickMs
       /\ UNCHANGED <<pc, closed>>
\* `if (now >= nextTick)` at the end of an iteration that has left the clock
\* tc, at time t, having written the frames in written
TickOrNot(tc, t, written, ub) ==
  IF t >= nextTick
  THEN Tick(makeTickEvent(tc, t, ub), t, written)
  ELSE out' = written /\ UNCHANGED <<nextTick, pc, closed>>
\* the rest of an iteration in which processIncomingBuffer has returned done
Processed(done, t, ub) ==
  /\ readBuffer' = done.buffer
  /\ transport' = done.transport
  /\ bodies' = bodies \o done.bodies
  /\ IF done.ret
     THEN TickOrNot(done.transport, t, out \o done.written, ub)
     ELSE /\ Close(done.fail)
          /\ out' = out \o done.written
          /\ UNCHANGED nextTick

\* while (g_running) of the connection: left
LoopStopped ==
  /\ pc = "loop" /\ ~g_running
  /\ Close("stop")
  /\ UNCHANGED <<g_running, transport, now, nextTick, readBuffer, out, wire,
                 peer, script, delivered, cuts, bodies, conns,
                 dvars, cvars, kvars, nvars, bvars>>
\* select() times out after 20000 us with nothing to read
LoopTimeout(ub) ==
  /\ pc = "loop" /\ g_running
  /\ now + kSelectMs <= MaxTime
  /\ now' = now + kSelectMs
  /\ TickOrNot(transport, now', out, ub)
  /\ UNCHANGED <<g_running, transport, readBuffer, wire, peer, script,
                 delivered, cuts, bodies, conns,
                 dvars, cvars, kvars, nvars, bvars>>
\* select() reports the socket readable after dt ms and recv() returns n bytes
LoopRecv(n, dt, ub) ==
  /\ pc = "loop" /\ g_running
  /\ n \in RecvSizes
  /\ now + dt <= MaxTime
  /\ now' = now + dt
  /\ wire' = BDrop(wire, n)
  /\ delivered' = delivered + n
  /\ Processed(processIncomingBuffer(BCat(readBuffer, BTake(wire, n)),
                 transport, now + dt, ub, peer = "open",
                 [bodies |-> <<>>, written |-> <<>>]),
               now + dt, ub)
  /\ UNCHANGED <<g_running, peer, script, cuts, conns,
                 dvars, cvars, kvars, nvars, bvars>>
\* recv() returns 0: the client has closed and everything it sent was read
LoopEnd ==
  /\ pc = "loop" /\ g_running
  /\ wire = <<>> /\ peer = "closed"
  /\ Close("eof")
  /\ UNCHANGED <<g_running, transport, now, nextTick, readBuffer, out, wire,
                 peer, script, delivered, cuts, bodies, conns,
                 dvars, cvars, kvars, nvars, bvars>>

\* the client closes its socket, having sent all of its script or
\* (sent = FALSE) only what has been received so far
PeerClose(sent) ==
  /\ pc = "loop" /\ peer = "open"
  /\ peer' = "closed"
  /\ wire' = IF sent THEN wire ELSE <<>>
  /\ UNCHANGED <<g_running, pc, transport, now, nextTick, readBuffer, out,
                 script, delivered, cuts, bodies, closed, conns,
                 dvars, cvars, kvars, nvars, bvars>>
\* signalHandler: SIGINT or SIGTERM
signalHandler ==
  /\ g_running /\ pc # "exit"
  /\ g_running' = FALSE
  /\ UNCHANGED <<pc, transport, now, nextTick, readBuffer, out, wire, peer,
                 script, delivered, cuts, bodies, closed, conns,
                 dvars, cvars, kvars, nvars, bvars>>

\* the result of an out-of-range double -> int64_t conversion is undefined:
\* what x86-64 and AArch64 builds produce
CastResults == {kInt64Min, I64(0)}
Connect == \E s \in IF conns = 0 THEN Scripts ELSE LaterScripts : Accept(s)
Timeout == \E ub \in CastResults : LoopTimeout(ub)
Recv ==
  \E n \in RecvSizes, dt \in {0, kSelectMs}, ub \in CastResults : LoopRecv(n, dt, ub)
PeerCloses == \E sent \in BOOLEAN : PeerClose(sent)
Next ==
  \/ WhileRunning \/ WhileStopped
  \/ Connect \/ AcceptInterrupted \/ AcceptFailed
  \/ LoopStopped \/ Timeout \/ Recv \/ LoopEnd
  \/ PeerCloses \/ signalHandler
Spec == Init /\ [][Next]_vars

\* ------------------------------------------------- frames at the size limit
\* a request of exactly kMaxFrameSize bytes that names no handler: the cmd is
\* kMaxFrameSize - 23 bytes of filler
LongCmdBody ==
  encodeValue(MsgObj(Object(<< <<Ascii["type"], MsgStr(Ascii["request"])>>,
                               <<Ascii["cmd"], MsgStr(<<23 - kMaxFrameSize>>)>> >>)))
\* a health.ping of exactly kMaxFrameSize bytes: an unused field carries
\* kMaxFrameSize - 41 bytes of filler
PaddedPingBody ==
  encodeValue(MsgObj(Object(<< <<Ascii["type"], MsgStr(Ascii["request"])>>,
                               <<Ascii["id"], Id(5)>>,
                               <<Ascii["cmd"], Cmd("health.ping")>>,
                               <<Ascii["a"], MsgStr(<<41 - kMaxFrameSize>>)>> >>)))
GetState(n) == ClientFrame(encodeValue(Request(Id(n), Cmd("transport.get_state"))))
\* a header that declares one byte more than kMaxFrameSize
OversizeHeader == writeUint32BE(U32(kMaxFrameSize + 1))
BigScripts ==
  {<<ClientFrame(LongCmdBody), GetState(2)>>,
   <<ClientFrame(PaddedPingBody), GetState(2)>>,
   <<OversizeHeader>>,
   <<OversizeHeader \o <<129, 160>>, GetState(2)>>,
   <<GetState(1), <<255, 255, 255, 255>> \o GetState(2)>>,
   <<writeUint32BE(U32(kMaxFrameSize)) \o <<129, 160>> >>}
ConnectBig == \E s \in BigScripts : conns = 0 /\ Accept(s)
NextBig == WhileRunning \/ ConnectBig \/ Timeout \/ Recv \/ LoopEnd \/ PeerCloses
SpecBig == Init /\ [][NextBig]_vars

\* -------------------------------------------- handleRequest on bounded inputs
\* clocks handleRequest may find: fresh, sought, playing, playing from an
\* offset, stopped and playing at another tempo
Clocks ==
  {TransportCore(0),
   seekToBeats(TransportCore(0), Fin(4 * Unit), 0),
   play(TransportCore(0), 0),
   play(seekToBeats(TransportCore(0), Fin(4 * Unit), 0), 0),
   setBpm(TransportCore(0), Fin(90 * Unit), 0),
   play(setBpm(TransportCore(0), Fin(90 * Unit), 0), 0)}
\* when the request is handled, in ms
DispatchTimes == {0, 1500}
DispatchInit ==
  /\ request \in {r.v : r \in Requests}
  /\ before \in Clocks
  /\ transport = before
  /\ now \in DispatchTimes
  /\ response = Nil
  /\ g_running = TRUE /\ pc = "idle" /\ nextTick = 0 /\ readBuffer = <<>>
  /\ out = <<>> /\ wire = <<>> /\ peer = "closed" /\ script = <<>>
  /\ delivered = 0 /\ cuts = {} /\ bodies = <<>> /\ closed = "" /\ conns = 0
  /\ CodecIdle /\ ClockIdle /\ SendIdle /\ BackendIdle
Handled(reply) == response' = reply.response /\ transport' = reply.transport
\* const MsgValue response = handleRequest(*request, transport)
Handle(ub) ==
  /\ response.t = "nil"
  /\ Handled(handleRequest(request, before, now, ub))
  /\ UNCHANGED <<request, before, now, g_running, pc, nextTick, readBuffer, out,
                 wire, peer, script, delivered, cuts, bodies, closed, conns, cvars, kvars, nvars, bvars>>
DispatchNext == \E ub \in CastResults : Handle(ub)
SpecDispatch == DispatchInit /\ [][DispatchNext]_vars

\* --------------------------------------------- the transport clock on its own
\* what seekToBeats and setBpm may be given: small, negative, inside and
\* beyond the tempo limits, huge, NaN and the infinities
ClockArgs ==
  {Fin(4 * Unit), Fin(-(3 * Unit)), Fin(120 * Unit), Fin(1000 * Unit),
   Big, NBig, NaN, PInf, NInf}
\* how long the steady clock may run between two operations, in ms
ClockWaits == {500, 1000}
ClockInit == ServerIdle /\ DispatchIdle /\ CodecIdle /\ ClockIdle
             /\ SendIdle /\ BackendIdle
\* one operation on the clock: transport is the clock, before the clock as
\* the operation found it
ClockStep(name, arg, next, hold) ==
  /\ before' = transport
  /\ transport' = next
  /\ op' = [name |-> name, arg |-> arg]
  /\ held' = hold
\* what no operation of the clock touches
ClockRest ==
  UNCHANGED <<g_running, pc, nextTick, readBuffer, out, wire, peer, script,
              delivered, cuts, bodies, closed, conns, request, response, cvars,
              nvars, bvars>>
\* transport.play()
ClockPlay ==
  /\ ClockStep("play", Fin(0), play(transport, now),
               IF transport.playing THEN held
               ELSE [held EXCEPT !.by = IF held.by = "pause" THEN "resumed" ELSE ""])
  /\ UNCHANGED now /\ ClockRest
\* transport.pause()
ClockPause ==
  /\ ClockStep("pause", Fin(0), pause(transport, now),
               IF transport.playing
               THEN [by |-> "pause", pos |-> positionBeatsAt(transport, now)]
               ELSE held)
  /\ UNCHANGED now /\ ClockRest
\* transport.stop()
ClockStop ==
  /\ ClockStep("stop", Fin(0), stop(transport, now), [by |-> "stop", pos |-> Fin(0)])
  /\ UNCHANGED now /\ ClockRest
\* transport.seekToBeats(d)
ClockSeek ==
  /\ \E d \in ClockArgs :
       ClockStep("seekToBeats", d, seekToBeats(transport, d, now), NoHold)
  /\ UNCHANGED now /\ ClockRest
\* transport.setBpm(d)
ClockSetBpm ==
  /\ \E d \in ClockArgs : ClockStep("setBpm", d, setBpm(transport, d, now), held)
  /\ UNCHANGED now /\ ClockRest
\* std::chrono::steady_clock::now() has advanced
ClockWait ==
  /\ \E dt \in ClockWaits :
       /\ now + dt <= MaxClockTime
       /\ now' = now + dt
  /\ before' = transport
  /\ op' = [name |-> "wait", arg |-> Fin(0)]
  /\ UNCHANGED <<transport, held>> /\ ClockRest
ClockNext ==
  ClockPlay \/ ClockPause \/ ClockStop \/ ClockSeek \/ ClockSetBpm \/ ClockWait
SpecClock == ClockInit /\ [][ClockNext]_vars

\* ------------------------------------------------ the socket thread, scheduled
\* The socket thread takes its next step whenever it has one: it tests the
\* loop conditions, select() returns within kSelectMs and recv() returns what
\* is there.  Nothing makes a client connect, a signal arrive or accept()
\* return: the listening socket is blocking and the handlers are installed
\* with std::signal, so no step of the thread is owed while it is in accept().
\* select() can time out, recv() can return bytes: ENABLED Timeout, ENABLED Recv
CanTimeout == pc = "loop" /\ g_running /\ now + kSelectMs <= MaxTime
CanRecv == pc = "loop" /\ g_running /\ now <= MaxTime /\ RecvSizes # {}
WorkerRuns ==
  /\ WF_vars(WhileRunning) /\ WF_vars(WhileStopped)
  /\ WF_vars(LoopStopped) /\ WF_vars(LoopEnd)
  /\ ([]<>(~CanTimeout) \/ []<><<Timeout>>_vars)
  /\ ([]<>(~CanRecv) \/ []<><<Recv>>_vars)
\* every client sends one transport.get_state
ConnectLive == \E s \in LaterScripts : Accept(s)
NextLive ==
  \/ WhileRunning \/ WhileStopped
  \/ ConnectLive \/ AcceptInterrupted \/ AcceptFailed
  \/ LoopStopped \/ Timeout \/ Recv \/ LoopEnd
  \/ PeerCloses \/ signalHandler
SpecLive == Init /\ [][NextLive]_vars /\ WorkerRuns

\* ------------------------------------------- sendFrame, one send() at a time
\* body sizes of the frames written, and the socket's send buffer, in bytes
MaxBody == 6
SndBuf == 4
SendInit ==
  /\ ServerIdle /\ DispatchIdle /\ CodecIdle /\ ClockIdle /\ BackendIdle
  /\ bodySize \in 1..MaxBody
  /\ part = "header" /\ spc = "send"
  /\ sizeBytes = kFrameHeaderBytes /\ sentBytes = 0
  /\ room \in 0..SndBuf
  /\ reader \in {"reading", "stalled"}
  /\ errno = ""
\* what the steps of sendFrame leave alone
SendRest == UNCHANGED <<svars, dvars, cvars, kvars, bvars, bodySize>>
\* send() takes n bytes: sent += written; continue
SendWritten ==
  /\ spc = "send" /\ sentBytes < sizeBytes /\ reader # "gone" /\ room > 0
  /\ \E n \in 1..Min(sizeBytes - sentBytes, room) :
       /\ sentBytes' = sentBytes + n
       /\ room' = room - n
  /\ UNCHANGED <<part, spc, sizeBytes, reader, errno>> /\ SendRest
\* send() fails with EINTR: continue
SendInterrupted ==
  /\ spc = "send" /\ sentBytes < sizeBytes /\ reader # "gone"
  /\ errno' = "EINTR"
  /\ UNCHANGED <<part, spc, sizeBytes, sentBytes, room, reader>> /\ SendRest
\* send() fails with EAGAIN / EWOULDBLOCK, the send buffer being full:
\* std::this_thread::sleep_for(1 ms)
SendWouldBlock ==
  /\ spc = "send" /\ sentBytes < sizeBytes /\ reader # "gone" /\ room = 0
  /\ errno' = "EAGAIN"
  /\ spc' = "sleep"
  /\ UNCHANGED <<part, sizeBytes, sentBytes, room, reader>> /\ SendRest
\* the sleep is over: continue
SendRetry ==
  /\ spc = "sleep"
  /\ spc' = "send"
  /\ UNCHANGED <<part, sizeBytes, sentBytes, room, reader, errno>> /\ SendRest
\* send() fails with any other error, the peer being gone: return false
SendFailed ==
  /\ spc = "send" /\ sentBytes < sizeBytes /\ reader = "gone"
  /\ errno' = "EPIPE"
  /\ spc' = "false"
  /\ UNCHANGED <<part, sizeBytes, sentBytes, room, reader>> /\ SendRest
\* sendAll(header) has returned true: && sendAll(body)
HeaderSent ==
  /\ spc = "send" /\ sentBytes = sizeBytes /\ part = "header"
  /\ part' = "body"
  /\ sizeBytes' = bodySize /\ sentBytes' = 0
  /\ UNCHANGED <<spc, room, reader, errno>> /\ SendRest
\* sendAll(body) has returned true, and so does sendFrame
BodySent ==
  /\ spc = "send" /\ sentBytes = sizeBytes /\ part = "body"
  /\ spc' = "true"
  /\ UNCHANGED <<part, sizeBytes, sentBytes, room, reader, errno>> /\ SendRest
\* the peer reads n bytes from its socket
PeerReads ==
  /\ spc \in {"send", "sleep"} /\ reader = "reading" /\ room < SndBuf
  /\ \E n \in 1..(SndBuf - room) : room' = room + n
  /\ UNCHANGED <<part, spc, sizeBytes, sentBytes, reader, errno>> /\ SendRest
\* the peer stops reading and keeps its socket open
PeerStalls ==
  /\ spc \in {"send", "sleep"} /\ reader = "reading"
  /\ reader' = "stalled"
  /\ UNCHANGED <<part, spc, sizeBytes, sentBytes, room, errno>> /\ SendRest
\* the peer closes its socket
PeerGone ==
  /\ spc \in {"send", "sleep"} /\ reader # "gone"
  /\ reader' = "gone"
  /\ UNCHANGED <<part, spc, sizeBytes, sentBytes, room, errno>> /\ SendRest
SendNext ==
  \/ SendWritten \/ SendInterrupted \/ SendWouldBlock \/ SendRetry \/ SendFailed
  \/ HeaderSent \/ BodySent
  \/ PeerReads \/ PeerStalls \/ PeerGone
\* the socket thread runs, send() returns, and a peer that reads goes on
\* reading. A signal that interrupts send() is owed to nobody.
SendRuns ==
  /\ WF_vars(SendWritten) /\ WF_vars(SendWouldBlock) /\ WF_vars(SendRetry)
  /\ WF_vars(SendFailed) /\ WF_vars(HeaderSent) /\ WF_vars(BodySent)
  /\ WF_vars(PeerReads)
SpecSend == SendInit /\ [][SendNext]_vars /\ SendRuns

\* ----------------------------------------------- the Tracktion backend linked
\* tracktion_backend_tracktion.cpp behind handleRequest and makeTickEvent when
\* g_useTracktionTransport is true.  The edit's transport is kept in beats:
\* the tempo sequence's toTime / toBeats are taken to be inverse to each
\* other.  The edit is in 4/4 and starts at the engine's default tempo.
EditBeatsPerBar == 4
DefaultEditBpm == Fin(120 * Unit)
\* createDefaultEdit: gState->edit = std::move(nextEdit)
createDefaultEdit ==
  [loaded |-> TRUE, playing |-> FALSE, shouldPlay |-> TRUE,
   position |-> Fin(0), bpm |-> DefaultEditBpm]
\* juce::jlimit(20.0, 300.0, requested) of std::isfinite(bpm) ? bpm : 128.0
jlimit(bpm) ==
  IF ~isfinite(bpm) THEN Fin(128 * Unit)
  ELSE CASE bpm.k = "nbig" -> Fin(20 * Unit)
         [] bpm.k = "big" -> Fin(300 * Unit)
         [] bpm.x < 20 * Unit -> Fin(20 * Unit)
         [] 300 * Unit < bpm.x -> Fin(300 * Unit)
         [] OTHER -> bpm
\* transportPlayImpl
transportPlayImpl(g) ==
  IF ~g.loaded \/ ~g.shouldPlay THEN g ELSE [g EXCEPT !.playing = TRUE]
\* transportPauseImpl: stop, setPosition(savedPosition)
transportPauseImpl(g) == IF ~g.loaded THEN g ELSE [g EXCEPT !.playing = FALSE]
\* transportStopImpl: stop, setPosition(0)
transportStopImpl(g) ==
  IF ~g.loaded THEN g ELSE [g EXCEPT !.playing = FALSE, !.position = Fin(0)]
\* setTempoOnMessageThread of transportSetBpm, clampedBpm captured
setTempoOnMessageThread(g, clampedBpm) ==
  IF ~g.loaded THEN g ELSE [g EXCEPT !.bpm = clampedBpm]
\* gState->edit->getTransport().setPosition(timePos) of transportSeek
setPosition(g, beats) == [g EXCEPT !.position = beats]
\* what a function handed to the message thread does to the edit
RunOn(g, call) ==
  CASE call.fn = "transportPlayImpl" -> transportPlayImpl(g)
    [] call.fn = "transportPauseImpl" -> transportPauseImpl(g)
    [] call.fn = "transportStopImpl" -> transportStopImpl(g)
    [] call.fn = "setTempoOnMessageThread" -> setTempoOnMessageThread(g, call.arg)
    [] call.fn = "createDefaultEdit" -> createDefaultEdit
    [] OTHER -> g
Call(fn, arg) == [fn |-> fn, arg |-> arg]
\* a backend call as the handler saw it: where it ran, whether it had
\* completed when the handler went on, and how long the handler waited (ms)
Ran(fn, on, done, waited) == [fn |-> fn, on |-> on, done |-> done, waited |-> waited]
\* the backend while a handler runs: the edit, the lambdas callAsync has
\* queued and not run, and the calls made so far
Backend(g, q) == [g |-> g, q |-> q, ran |-> <<>>]
\* mm->callAsync(lambda) and cv.wait_for(lock, limit, done), called on the
\* socket thread: the message thread runs the lambda in time, or the wait
\* expires with the lambda still queued
callAsync(b, m, call, limit) ==
  IF m = "idle"
  THEN [b EXCEPT !.g = RunOn(b.g, call),
                 !.ran = Append(@, Ran(call.fn, "message", TRUE, 0))]
  ELSE [b EXCEPT !.q = Append(@, call),
                 !.ran = Append(@, Ran(call.fn, "message", FALSE, limit))]
\* a backend function that touches the edit on the calling thread
Direct(b, fn, g) ==
  [b EXCEPT !.g = g, !.ran = Append(@, Ran(fn, "worker", TRUE, 0))]
\* runOnMessageThreadAndWait(fn): 5 s
runOnMessageThreadAndWait(b, m, fn) == callAsync(b, m, Call(fn, Fin(0)), 5000)
\* transportEnsureContext()
transportEnsureContext(b, m) ==
  IF ~b.g.loaded THEN b
  ELSE runOnMessageThreadAndWait(b, m, "transportEnsureContextImpl")
\* transportPlay(): 5 s
transportPlay(b, m) ==
  IF ~b.g.loaded THEN b ELSE callAsync(b, m, Call("transportPlayImpl", Fin(0)), 5000)
\* transportPause()
transportPause(b, m) == runOnMessageThreadAndWait(b, m, "transportPauseImpl")
\* transportStop()
transportStop(b, m) == runOnMessageThreadAndWait(b, m, "transportStopImpl")
\* transportSeek(positionBeats): setPosition on the calling thread
transportSeek(b, positionBeats) ==
  IF ~b.g.loaded THEN b
  ELSE Direct(b, "transportSeek", setPosition(b.g, Max0(positionBeats)))
\* transportSetBpm(bpm): 5 s
transportSetBpm(b, m, bpm) ==
  IF ~b.g.loaded THEN b
  ELSE callAsync(b, m, Call("setTempoOnMessageThread", jlimit(bpm)), 5000)
\* createDefaultEditOnMessageThread of resetDefaultEdit: 15 s
createDefaultEditOnMessageThread(b, m) ==
  callAsync(b, m, Call("createDefaultEdit", Fin(0)), 15000)
\* getTransportSnapshot(out): false without an edit; the wall clock reads t
getTransportSnapshot(g, t, ub) ==
  LET positionBeats == g.position
      inRange == positionBeats.k = "fin"
      positionBars == IF inRange THEN Fin(positionBeats.x \div EditBeatsPerBar)
                      ELSE positionBeats
      stepIndex ==
        IF inRange
        THEN I64((positionBeats.x \div (Unit \div 4)) % (EditBeatsPerBar * 4))
        ELSE I64Mod16(ub)
  IN [ok |-> g.loaded,
      playing |-> g.playing,
      isRecording |-> FALSE,
      bpm |-> g.bpm,
      positionBars |-> positionBars,
      positionBeats |-> positionBeats,
      bar |-> I64Inc(IF inRange THEN I64(positionBars.x \div Unit) ELSE ub),
      beat |-> IF inRange
               THEN I64(((positionBeats.x % (EditBeatsPerBar * Unit)) \div Unit) + 1)
               ELSE I64(1),
      step |-> I64Inc(stepIndex),
      stepIndex |-> stepIndex,
      timestamp |-> I64(t)]
\* the read of the edit's transport by getTransportSnapshot, on the caller
Read(b) == IF b.g.loaded THEN Direct(b, "getTransportSnapshot", b.g) ELSE b
snapshotToMsgObject(s) ==
  Object(<< <<Ascii["playing"], MsgBool(s.playing)>>,
            <<Ascii["recording"], MsgBool(s.isRecording)>>,
            <<Ascii["bpm"], MsgDouble(s.bpm)>>,
            <<Ascii["bar"], MsgInt(s.bar)>>,
            <<Ascii["beat"], MsgInt(s.beat)>>,
            <<Ascii["step"], MsgInt(s.step)>>,
            <<Ascii["stepIndex"], MsgInt(s.stepIndex)>>,
            <<Ascii["positionBars"], MsgDouble(s.positionBars)>>,
            <<Ascii["positionBeats"], MsgDouble(s.positionBeats)>>,
            <<Ascii["timestamp"], MsgInt(s.timestamp)>> >>)
\* {"transport": snapshotToMsgObject(backendSnap)}
BackendPayload(s) == Object(<< <<Ascii["transport"], MsgObj(snapshotToMsgObject(s))>> >>)

\* what a handler leaves: the Response, the local clock and the backend
Answer(reply, tc, b) == [response |-> reply, transport |-> tc, backend |-> b]
\* thestuu::native::TransportSnapshot backendSnap;
\* if (getTransportSnapshot(backendSnap)) return makeResponse(id, {transport: backendSnap});
\* return makeResponse(id, {transport: transport.snapshot()});
SnapshotReply(id, s, tc, t, ub, b) ==
  IF s.ok
  THEN Answer(makeResponse(id, BackendPayload(s)), tc, Read(b))
  ELSE Answer(makeResponse(id, TransportPayload(tc, t, ub)), tc, Read(b))
\* mutation: the Response is made from the local clock
BackendReplyLocal(id, tc, t, ub, b) ==
  Answer(makeResponse(id, TransportPayload(tc, t, ub)), tc, Read(b))
\* the Response after a backend transport call
BackendReply(id, tc, t, ub, b) ==
  SnapshotReply(id, getTransportSnapshot(b.g, t, ub), tc, t, ub, b)
\* the Response of transport.play: backendSnap.playing = true
PlayReply(id, tc, t, ub, b) ==
  SnapshotReply(id, [getTransportSnapshot(b.g, t, ub) EXCEPT !.playing = TRUE],
                tc, t, ub, b)
\* the Response of edit:reset, with track_count absent
EditResetReply(id, tc, b) ==
  IF b.ran[Len(b.ran)].done
  THEN Answer(makeResponse(id, Object(<< <<Ascii["trackCount"], MsgInt(I64(16))>> >>)),
              tc, b)
  ELSE Answer(makeErrorResponse(id, Ascii["timeout during edit:reset (message thread)"]),
              tc, b)
\* handleRequest once id, type, cmd and payload are read, with
\* g_useTracktionTransport true: the transport commands and edit:reset
BackendDispatch(id, type, cmd, payload, tc, t, ub, b, m) ==
  IF type # Ascii["request"]
  THEN Answer(NotARequest(id, tc).response, tc, b)
  ELSE
  CASE cmd = Ascii["transport.get_state"] -> BackendReply(id, tc, t, ub, b)
    [] cmd \in {Ascii["transport.ensure-context"], Ascii["transport:ensure-context"]} ->
         Answer(makeResponse(id, <<>>), tc, transportEnsureContext(b, m))
    [] cmd = Ascii["transport.play"] -> PlayReply(id, tc, t, ub, transportPlay(b, m))
    [] cmd = Ascii["transport.pause"] -> BackendReply(id, tc, t, ub, transportPause(b, m))
    [] cmd = Ascii["transport.stop"] -> BackendReply(id, tc, t, ub, transportStop(b, m))
    [] cmd = Ascii["transport.set_bpm"] ->
         BackendReply(id, tc, t, ub, transportSetBpm(b, m, BpmTarget(payload, tc)))
    [] cmd = Ascii["transport.seek"] ->
         BackendReply(id, tc, t, ub, transportSeek(b, SeekTarget(payload)))
    [] cmd = Ascii["edit:reset"] ->
         EditResetReply(id, tc, createDefaultEditOnMessageThread(b, m))
    [] OTHER -> Answer(UnknownCmd(id, cmd, tc).response, tc, b)
\* handleRequest(request, transport) with the backend linked
handleRequestBackend(r, tc, t, ub, b, m) ==
  BackendDispatch(asInt(getField(r, Ascii["id"]), I64(0), ub),
                  asString(getField(r, Ascii["type"]), <<>>),
                  asString(getField(r, Ascii["cmd"]), <<>>),
                  asObject(getField(r, Ascii["payload"])),
                  tc, t, ub, b, m)
\* makeTickEvent(transport) with g_useTracktionTransport true (no analyzer
\* snapshot is available)
makeTickEventBackend(s, tc, t, ub) ==
  IF s.ok
  THEN MsgObj(Object(<< <<Ascii["type"], MsgStr(Ascii["event"])>>,
                        <<Ascii["event"], MsgStr(Ascii["transport.tick"])>>,
                        <<Ascii["payload"], MsgObj(snapshotToMsgObject(s))>> >>))
  ELSE makeTickEvent(tc, t, ub)

\* -------------------------------------- the socket thread, the backend linked
\* lambdas queued behind a message thread that does not dispatch, and the
\* beats the engine is followed for
MaxQueued == 1
MaxEngineBeats == 2
MaxBackendTime == 20000
\* what the client asks of the backend
BackendRequests ==
  {Request(Id(1), Cmd("edit:reset")),
   Request(Id(1), Cmd("transport.get_state")),
   Request(Id(1), Cmd("transport.ensure-context")),
   Request(Id(1), Cmd("transport.play")),
   Request(Id(1), Cmd("transport.pause")),
   Request(Id(1), Cmd("transport.stop")),
   RequestWith(Id(1), Cmd("transport.seek"), Payload("position_beats", Id(4))),
   RequestWith(Id(1), Cmd("transport.seek"),
               Payload("position_beats", Float(Fin((5 * Unit) \div 2)))),
   Request(Id(1), Cmd("transport.set_bpm")),
   RequestWith(Id(1), Cmd("transport.set_bpm"), Payload("bpm", Id(10))),
   Request(Id(7), Cmd("bogus")),
   MsgObj(Object(<< <<Ascii["type"], MsgStr(Ascii["event"])>>,
                    <<Ascii["id"], Id(7)>> >>))}
\* main: initialiseBackend has succeeded, g_useTracktionTransport =
\* backendInfo.tracktion, no edit yet; the message loop runs on the main thread
BackendInit ==
  /\ ServerIdle /\ DispatchIdle /\ CodecIdle /\ ClockIdle /\ SendIdle
  /\ g_useTracktionTransport = TRUE
  /\ gState = NoEdit /\ mm = "idle" /\ queued = <<>>
  /\ ran = <<>> /\ tick = Nil /\ touched = {}
BackendRest ==
  UNCHANGED <<g_running, pc, nextTick, readBuffer, out, wire, peer, script,
              delivered, cuts, bodies, closed, conns, before, cvars, kvars,
              nvars, g_useTracktionTransport>>
\* how long the handler's calls made it wait
RECURSIVE Waited(_)
Waited(calls) ==
  IF calls = <<>> THEN 0 ELSE Head(calls).waited + Waited(Tail(calls))
BackendHandled(r, a) ==
  /\ now + Waited(a.backend.ran) <= MaxBackendTime
  /\ now' = now + Waited(a.backend.ran)
  /\ request' = r
  /\ response' = a.response
  /\ transport' = a.transport
  /\ gState' = a.backend.g
  /\ queued' = a.backend.q
  /\ ran' = a.backend.ran
  /\ tick' = Nil
\* const MsgValue response = handleRequest(*request, transport)
BackendHandle(r, ub) ==
  /\ mm \in {"idle", "busy"}
  /\ mm = "busy" => Len(queued) < MaxQueued
  /\ BackendHandled(r, handleRequestBackend(r, transport, now, ub,
                                            Backend(gState, queued), mm))
  /\ UNCHANGED <<mm, touched>> /\ BackendRest
\* sendFrame(clientFd, makeTickEvent(transport))
BackendTick(ub) ==
  /\ mm \in {"idle", "busy"}
  /\ tick' = makeTickEventBackend(getTransportSnapshot(gState, now, ub),
                                  transport, now, ub)
  /\ ran' = Read(Backend(gState, queued)).ran
  /\ request' = <<>> /\ response' = Nil
  /\ UNCHANGED <<transport, now, gState, queued, mm, touched>> /\ BackendRest
\* the message thread stops dispatching (it is busy for longer than any wait)
MessageThreadBlocks ==
  /\ mm = "idle"
  /\ mm' = "busy"
  /\ UNCHANGED <<transport, now, request, response, gState, queued, ran, tick,
                 touched>>
  /\ BackendRest
\* what the lambda handed to callAsync captures by reference ([&]) from the
\* frame of the function that queued it
Captured(call) ==
  IF call.fn = "createDefaultEdit"
  THEN {"mtx", "cv", "done", "ok", "error"}
  ELSE {"mtx", "cv", "done"}
\* what lambdas that run after their callers have returned use of them
LateUse(q) == UNION {Captured(q[i]) : i \in 1..Len(q)}
RECURSIVE RunAll(_, _)
RunAll(g, q) == IF q = <<>> THEN g ELSE RunAll(RunOn(g, Head(q)), Tail(q))
\* the message thread dispatches again and runs what was queued
MessageThreadRuns ==
  /\ mm = "busy"
  /\ mm' = "idle"
  /\ gState' = RunAll(gState, queued)
  /\ queued' = <<>>
  /\ touched' = touched \cup LateUse(queued)
  /\ UNCHANGED <<transport, now, request, response, ran, tick>> /\ BackendRest
\* a queued lambda whose caller has timed out and returned uses the mutex,
\* the condition variable and the flag of a frame that is gone: the process
\* may die of it
LateLambdaCrashes ==
  /\ mm = "busy" /\ queued # <<>>
  /\ mm' = "crashed"
  /\ touched' = touched \cup LateUse(queued)
  /\ UNCHANGED <<transport, now, request, response, gState, queued, ran, tick>>
  /\ BackendRest
\* the engine plays on by one beat
EngineAdvances ==
  /\ mm \in {"idle", "busy"}
  /\ gState.loaded /\ gState.playing
  /\ gState.position.k = "fin" /\ gState.position.x < MaxEngineBeats * Unit
  /\ gState' = [gState EXCEPT !.position = Fin(@.x + Unit)]
  /\ UNCHANGED <<transport, now, request, response, queued, mm, ran, tick,
                 touched>>
  /\ BackendRest
HandleBackend == \E r \in BackendRequests, ub \in CastResults : BackendHandle(r.v, ub)
TickBackend == \E ub \in CastResults : BackendTick(ub)
BackendNext ==
  \/ HandleBackend \/ TickBackend
  \/ MessageThreadBlocks \/ MessageThreadRuns \/ LateLambdaCrashes
  \/ EngineAdvances
SpecBackend == BackendInit /\ [][BackendNext]_vars

\* -------------------------------------------- the decoder on arbitrary bytes
\* nested readValue calls the socket thread's stack holds. Scaled with the
\* inputs: the stack of the build holds some ten thousand, the body of a
\* frame up to kMaxFrameSize nested one-element arrays
MaxNesting == 3
\* bodies of up to DecodeLen bytes: one more than the stack holds calls
DecodeLen == MaxNesting + 1
\* a positive fixint, fixmap and fixarray of one, fixstr of one, nil, a
\* marker of no case, uint 8 and str 8
DecodeBytes == {0, 129, 145, 161, 192, 193, 204, 217}
\* every first byte alone and before a nil, and lengths of 32 bits that no
\* frame can hold
DecodeLong ==
  {<<t>> : t \in 0..255} \cup {<<t, 192>> : t \in 0..255}
    \cup {<<221, 255, 255, 255, 255>>, <<221, 128, 0, 0, 0, 192>>,
          <<221, 0, 0, 0, 2, 192>>, <<221, 0, 0, 0, 1, 192>>,
          <<145, 221, 255, 255, 255, 255>>,
          <<219, 255, 255, 255, 255, 97>>, <<219, 0, 0, 0, 1, 97>>,
          <<223, 255, 255, 255, 255>>, <<223, 0, 0, 0, 1, 161, 97, 192>>,
          <<220, 0, 2, 192>>, <<222, 0, 1, 192, 192>>}
DecodeInputs ==
  UNION {[1..n -> DecodeBytes] : n \in 0..DecodeLen} \cup DecodeLong
\* the machines of a run: a heap that grants every reserve() or none for 2^31
\* elements or more, a stack that holds the nesting of every body or
\* MaxNesting calls
Machines ==
  {Machine(e, f) : e \in {2147483646, 2147483647}, f \in {MaxNesting, 2147483647}}
DecodeInit ==
  /\ cpc = "bytes"
  /\ cval = Nil
  /\ cbytes \in DecodeInputs
  /\ cres = Throw("", 0)
  /\ ServerIdle /\ DispatchIdle /\ ClockIdle /\ SendIdle /\ BackendIdle
\* Decoder decoder(frame); decoder.readValue() on the machine m
DecodeOn(m) ==
  /\ cpc = "bytes"
  /\ cres' = readValue(cbytes, 0, m)
  /\ cpc' = "decoded"
  /\ UNCHANGED <<cval, cbytes, svars, dvars, kvars, nvars, bvars>>
DecodeNext == \E m \in Machines : DecodeOn(m)
SpecDecode == DecodeInit /\ [][DecodeNext]_vars

\* ===================================================================== claims
\* ------------------------------------------------ reading written messages
Field(message, name) == message.v[Ascii[name]]
HasField(message, name) == Ascii[name] \in DOMAIN message.v
IsResponse(message) == Field(message, "type") = MsgStr(Ascii["response"])
IsTick(message) ==
  /\ Field(message, "type") = MsgStr(Ascii["event"])
  /\ Field(message, "event") = MsgStr(Ascii["transport.tick"])
Responses(written) == SelectSeq(written, IsResponse)
Ticks(written) == SelectSeq(written, IsTick)
\* the body of a frame the client wrote
BodyOf(frame) == BDrop(frame, kFrameHeaderBytes)
\* the request map a body carries, if it carries one
MapOf(body) == readValue(body, 0, Ample)
CarriesMap(body) ==
  /\ MapOf(body).ok
  /\ MapOf(body).off = BLen(body)
  /\ MapOf(body).val.t = "map"
\* the id a body's Response must carry: its Int id, 0 when it has none
IdOf(body) ==
  IF CarriesMap(body)
  THEN IF Ascii["id"] \in DOMAIN MapOf(body).val.v
          /\ MapOf(body).val.v[Ascii["id"]].t = "int"
       THEN MapOf(body).val.v[Ascii["id"]].v
       ELSE I64(0)
  ELSE I64(0)
\* a < b as int64_t
I64Less(a, b) == I64Leq(a, b) /\ a # b
\* the four header bytes declare more than 0x00100000
DeclaresTooMuch(bytes) ==
  \/ bytes[1] > 0
  \/ bytes[2] > 16
  \/ bytes[2] = 16 /\ (bytes[3] > 0 \/ bytes[4] > 0)
FrameTooLargeError == makeErrorResponse(I64(0), Ascii["frame too large"])

\* a script of two frames whose declared lengths are within kMaxFrameSize
TwoValidFrames ==
  /\ Len(script) = 2
  /\ \A i \in 1..2 : /\ BLen(script[i]) >= kFrameHeaderBytes
                     /\ ~DeclaresTooMuch(script[i])
                     /\ BLen(script[i]) = kFrameHeaderBytes + frameSizeOf(script[i])
\* recv() has returned every byte of the script
AllDelivered == wire = <<>> /\ delivered = BLen(Concat(script))

\* C1: once every byte of two concatenated valid frames has been received,
\* in whatever chunks, and no send() to the client has failed, exactly the
\* two original bodies have been extracted, in order, and the buffer is empty
C1_Reassembly ==
  (TwoValidFrames /\ AllDelivered /\ closed # "io")
    => /\ bodies = <<BodyOf(script[1]), BodyOf(script[2])>>
       /\ readBuffer = <<>>

\* C2: the frames are extracted in the order they arrived, the i-th Response
\* written answers the i-th of them (it carries that frame's id), and the
\* transport.tick Events are written in the order of their timestamps
C2_ArrivalOrder ==
  /\ Len(bodies) <= Len(script)
  /\ \A i \in 1..Len(bodies) : bodies[i] = BodyOf(script[i])
  /\ Len(Responses(out)) <= Len(bodies)
  /\ \A i \in 1..Len(Responses(out)) :
       Field(Responses(out)[i], "id") = MsgInt(IdOf(bodies[i]))
  /\ \A i, j \in 1..Len(Ticks(out)) :
       i < j => I64Less(Field(Field(Ticks(out)[i], "payload"), "timestamp").v,
                        Field(Field(Ticks(out)[j], "payload"), "timestamp").v)
\* two Responses with a tick after each, on one connection
C2_Witness ==
  /\ Len(out) = 4
  /\ IsResponse(out[1]) /\ IsTick(out[2]) /\ IsResponse(out[3]) /\ IsTick(out[4])
  /\ Field(out[1], "id") # Field(out[3], "id")

\* C3: a buffered header that declares more than kMaxFrameSize is answered
\* at once (the loop never waits with it in the buffer) by exactly one
\* "frame too large" Response with id 0, written last, and the connection is
\* closed with nothing after the header extracted; a header that declares
\* kMaxFrameSize or less is never the reason
C3_Oversize ==
  /\ pc = "loop" /\ BLen(readBuffer) >= kFrameHeaderBytes
       => ~DeclaresTooMuch(readBuffer)
  /\ closed = "large"
       => /\ pc # "loop"
          /\ Len(bodies) < Len(script)
          /\ DeclaresTooMuch(script[Len(bodies) + 1])
          /\ \A i \in 1..Len(bodies) : bodies[i] = BodyOf(script[i])
          /\ peer = "open"
               => /\ out # <<>>
                  /\ out[Len(out)] = FrameTooLargeError
                  /\ Len(Responses(out)) = Len(bodies) + 1
                  /\ \A i \in 1..(Len(out) - 1) : out[i] # FrameTooLargeError
  /\ \A i \in 1..Len(script) :
       (~DeclaresTooMuch(script[i]) /\ Len(bodies) = i - 1) => closed # "large"
\* a frame was answered, then the oversize header behind it was rejected,
\* and the frame behind that header was left alone
C3_Witness ==
  /\ closed = "large" /\ peer = "open"
  /\ Len(bodies) = 1 /\ Len(script) = 2
  /\ Len(Responses(out)) = 2

\* C4: every frame extracted while the client is connected has had exactly
\* one Response written, and the connection was not closed for it
C4_OneResponseEach ==
  (peer = "open" /\ closed # "large")
    => /\ Len(Responses(out)) = Len(bodies)
       /\ closed \notin {"size", "io"}

\* the position_beats a transport.seek body carries, as the double it is read as
IsSeekToBeats(body) ==
  /\ CarriesMap(body)
  /\ Ascii["cmd"] \in DOMAIN MapOf(body).val.v
  /\ MapOf(body).val.v[Ascii["cmd"]] = MsgStr(Ascii["transport.seek"])
  /\ Ascii["payload"] \in DOMAIN MapOf(body).val.v
  /\ MapOf(body).val.v[Ascii["payload"]].t = "map"
  /\ Ascii["position_beats"] \in DOMAIN MapOf(body).val.v[Ascii["payload"]].v
SoughtBeats(body) ==
  LET p == MapOf(body).val.v[Ascii["payload"]].v[Ascii["position_beats"]]
  IN IF p.t = "int" THEN DoubleOfI64(p.v) ELSE DoubleFromBits(p.v)
IsGetState(body) ==
  /\ CarriesMap(body)
  /\ Ascii["cmd"] \in DOMAIN MapOf(body).val.v
  /\ MapOf(body).val.v[Ascii["cmd"]] = MsgStr(Ascii["transport.get_state"])
\* a client that sends transport.seek to p >= 0 and then transport.get_state,
\* to a clock that is not playing, and has both Responses
SeekThenGetState ==
  /\ Len(script) = 2
  /\ ~transport.playing
  /\ Len(Responses(out)) = 2
  /\ IsSeekToBeats(BodyOf(script[1]))
  /\ SoughtBeats(BodyOf(script[1])).k = "fin"
  /\ SoughtBeats(BodyOf(script[1])).x >= 0
  /\ IsGetState(BodyOf(script[2]))

\* C5: after transport.seek to p >= 0 and then transport.get_state on a clock
\* that is not playing, the first Response answers the seek, the second the
\* get_state, and the second's transport.positionBeats is p
C5_SeekThenGetState ==
  SeekThenGetState
    => /\ Field(Responses(out)[1], "id") = MsgInt(IdOf(BodyOf(script[1])))
       /\ Field(Responses(out)[2], "id") = MsgInt(IdOf(BodyOf(script[2])))
       /\ Field(Responses(out)[2], "ok") = MsgBool(TRUE)
       /\ Field(Field(Field(Responses(out)[2], "payload"), "transport"),
                "positionBeats") = MsgDouble(SoughtBeats(BodyOf(script[1])))
\* both Responses are there, p is 2.5 and a tick came between them
C5_Witness ==
  /\ SeekThenGetState
  /\ SoughtBeats(BodyOf(script[1])) = Fin((5 * Unit) \div 2)
  /\ Len(out) = 3 /\ IsTick(out[2])

\* a Value with no Float in it
RECURSIVE NoFloat(_)
NoFloat(value) ==
  CASE value.t = "float" -> FALSE
    [] value.t = "arr" -> \A i \in DOMAIN value.v : NoFloat(value.v[i])
    [] value.t = "map" -> \A key \in DOMAIN value.v : NoFloat(value.v[key])
    [] OTHER -> TRUE
\* C6: decoding the encoding of a Value (Null, Bool, Int, Str, Arr, Map,
\* nested) returns that Value and stops exactly at the end of the encoded
\* bytes: eof() holds, nothing is left over and nothing past the end was read
C6_RoundTrip ==
  (cpc = "decoded" /\ NoFloat(cval))
    => /\ cres.ok
       /\ cres.val = cval
       /\ cres.off = BLen(cbytes)
       /\ eof(cbytes, cres.off)
\* a map in a map was encoded and decoded
C6_Witness ==
  /\ cpc = "decoded"
  /\ cval.t = "map"
  /\ Ascii["payload"] \in DOMAIN cval.v
  /\ cval.v[Ascii["payload"]].t = "map"
  /\ cval.v[Ascii["payload"]].v # <<>>
  /\ cres.ok

\* the form the format lists for the int64_t x: its tag and its length
ShortestInt(x, bytes) ==
  CASE x[1] < 32768 /\ I64Leq(x, I64(127)) -> bytes = <<x[4]>>
    [] x[1] < 32768 /\ I64Leq(x, I64(255)) -> Len(bytes) = 2 /\ bytes[1] = 204
    [] x[1] < 32768 /\ I64Leq(x, I64(65535)) -> Len(bytes) = 3 /\ bytes[1] = 205
    [] x[1] < 32768 /\ I64Leq(x, kUint32Max) -> Len(bytes) = 5 /\ bytes[1] = 206
    [] x[1] < 32768 -> Len(bytes) = 9 /\ bytes[1] = 207
    [] I64Leq(I64(-32), x) -> bytes = <<x[4] % 256>> /\ bytes[1] >= 224
    [] I64Leq(I64(-128), x) -> Len(bytes) = 2 /\ bytes[1] = 208
    [] I64Leq(I64(-32768), x) -> Len(bytes) = 3 /\ bytes[1] = 209
    [] I64Leq(kInt32Min, x) -> Len(bytes) = 5 /\ bytes[1] = 210
    [] OTHER -> Len(bytes) = 9 /\ bytes[1] = 211
\* the smallest length form for n bytes of text / n elements / n entries
ShortestStr(n, bytes) ==
  CASE n <= 31 -> bytes[1] = 160 + n /\ BLen(bytes) = 1 + n
    [] n <= 255 -> bytes[1] = 217 /\ bytes[2] = n /\ BLen(bytes) = 2 + n
    [] n <= 65535 ->
         bytes[1] = 218 /\ <<bytes[2], bytes[3]>> = writeUint16BE(n)
           /\ BLen(bytes) = 3 + n
    [] OTHER -> bytes[1] = 219 /\ BLen(bytes) = 5 + n
ShortestCount(n, bytes, fix, wide) ==
  IF n <= 15 THEN bytes[1] = fix + n
  ELSE bytes[1] = wide /\ <<bytes[2], bytes[3]>> = writeUint16BE(n)
\* C7: encodeInt emits the shortest listed form of every int64_t (127 is 7F,
\* 128 is CC 80, -1 is FF, -33 is D0 DF), and strings, arrays and maps get
\* the smallest length form that holds their length
C7_ShortestForm ==
  cpc \in {"bytes", "decoded"}
    => /\ cval.t = "int" => ShortestInt(cval.v, cbytes)
       /\ cval = MsgInt(I64(127)) => cbytes = <<127>>
       /\ cval = MsgInt(I64(128)) => cbytes = <<204, 128>>
       /\ cval = MsgInt(I64(-1)) => cbytes = <<255>>
       /\ cval = MsgInt(I64(-33)) => cbytes = <<208, 223>>
       /\ cval.t = "str" => ShortestStr(BLen(cval.v), cbytes)
       /\ cval.t = "arr" => ShortestCount(Len(cval.v), cbytes, 144, 220)
       /\ cval.t = "map" => ShortestCount(Cardinality(DOMAIN cval.v), cbytes, 128, 222)
\* -33, the first int below the negative fixints, was encoded
C7_Witness == cpc = "bytes" /\ cval = MsgInt(I64(-33)) /\ cbytes = <<208, 223>>

\* handleRequest has returned
Answered == response.t = "map"
HasIntId == Ascii["id"] \in DOMAIN request /\ request[Ascii["id"]].t = "int"
IsRequest ==
  /\ Ascii["type"] \in DOMAIN request
  /\ request[Ascii["type"]] = MsgStr(Ascii["request"])

\* C8: the Response to a request map with an Int id carries that id, whether
\* the request succeeded, named no handler, lacked a payload field or was
\* refused by the backend
C8_IdEchoed ==
  (Answered /\ HasIntId)
    => /\ IsResponse(response)
       /\ Field(response, "id") = request[Ascii["id"]]
\* the backend refused a request whose id is the largest int64_t
C8_Witness ==
  /\ Answered /\ HasIntId
  /\ request[Ascii["id"]] = MsgInt(kInt64Max)
  /\ Field(response, "ok") = MsgBool(FALSE)

\* the id a rejected message is answered with: an Int id itself, a finite
\* Float id cut to its whole part, 0 for anything else
RejectedId ==
  IF Ascii["id"] \notin DOMAIN request THEN I64(0)
  ELSE CASE request[Ascii["id"]].t = "int" -> request[Ascii["id"]].v
         [] request[Ascii["id"]].t = "float"
              /\ DoubleFromBits(request[Ascii["id"]].v).k = "fin" ->
              I64(DoubleFromBits(request[Ascii["id"]].v).x \div Unit)
         [] OTHER -> I64(0)
\* C9 (as amended): a map whose type is not the string "request" is answered
\* with ok = false and the message's id when that is an Int, its whole part
\* when it is a finite Float, 0 otherwise; no handler runs, the clock is
\* unchanged
C9_NotARequest ==
  (Answered /\ ~IsRequest)
    => /\ IsResponse(response)
       /\ Field(response, "ok") = MsgBool(FALSE)
       /\ Field(response, "error") = MsgStr(Ascii["message type must be 'request'"])
       /\ ~HasField(response, "payload")
       /\ Field(response, "id") = MsgInt(RejectedId)
       /\ transport = before
\* a "response" that asks to seek a playing clock was rejected with its id
C9_Witness ==
  /\ Answered /\ ~IsRequest
  /\ Ascii["cmd"] \in DOMAIN request
  /\ request[Ascii["cmd"]] = MsgStr(Ascii["transport.seek"])
  /\ before.playing /\ now > 0
  /\ Field(response, "id") = MsgInt(I64(-1))
\* C9 (as stated): the Response carries the id when it is an Int and 0 otherwise
C9_AsStated ==
  (Answered /\ ~IsRequest)
    => Field(response, "id") =
         (IF HasIntId THEN request[Ascii["id"]] ELSE MsgInt(I64(0)))

\* the cmd text handleRequest works with
CmdText ==
  IF Ascii["cmd"] \in DOMAIN request /\ request[Ascii["cmd"]].t = "str"
  THEN request[Ascii["cmd"]].v ELSE <<>>
\* the commands that have a handler
Handlers ==
  {Ascii[name] : name \in
     {"transport.get_state", "transport.ensure-context", "transport:ensure-context",
      "transport.play", "transport.record", "transport.pause", "transport.stop",
      "transport.set_bpm", "transport.seek", "edit:reset", "backend.info",
      "health.ping", "vst:scan", "vst:load"}}
\* C10: a request whose cmd (the empty string when absent or not a string)
\* has no handler is answered with ok = false and the error "unknown cmd: "
\* followed by the cmd, and the clock is unchanged
C10_UnknownCmd ==
  (Answered /\ IsRequest /\ CmdText \notin Handlers)
    => /\ IsResponse(response)
       /\ Field(response, "ok") = MsgBool(FALSE)
       /\ Field(response, "error") = MsgStr(Ascii["unknown cmd: "] \o CmdText)
       /\ transport = before
\* "bogus" was sent to a playing clock
C10_Witness ==
  /\ Answered /\ IsRequest
  /\ CmdText = Ascii["bogus"]
  /\ before.playing /\ now > 0

\* ------------------------------------------------ the payload of a request
HasPayload == Ascii["payload"] \in DOMAIN request
\* the payload handleRequest works with: the map, or nullptr
PayloadMap ==
  IF HasPayload THEN asObject(request[Ascii["payload"]]) ELSE nullptr
\* the request with its payload replaced
WithPayload(req, payload) ==
  [k \in DOMAIN req \cup {Ascii["payload"]} |->
     IF k = Ascii["payload"] THEN MsgObj(payload) ELSE req[k]]
\* a map without one of its keys
Without(object, key) == [k \in DOMAIN object \ {key} |-> object[k]]
\* handleRequest answered and left the clock as this reply says
SameOutcome(reply) == response = reply.response /\ transport = reply.transport
\* the request was handled as this other request would have been
HandledLike(other) ==
  \E ub \in CastResults : SameOutcome(handleRequest(other, before, now, ub))

\* C11: a request without a payload field gets the Response and causes the
\* state change of the same request with an empty map as payload
C11_AbsentAsEmpty ==
  (Answered /\ IsRequest /\ ~HasPayload)
    => HandledLike(WithPayload(request, <<>>))

\* a Float that is NaN, +Infinity or -Infinity
NonFinite(value) == value.t = "float" /\ DoubleFromBits(value.v).k \in {"nan", "inf", "ninf"}
\* an Int or a finite Float
FiniteNumber(value) ==
  \/ value.t = "int"
  \/ value.t = "float" /\ ~NonFinite(value)
\* the numeric accessors give the fallback for this value
NumericFallback(value) ==
  /\ asDouble(value, Fin(7 * Unit)) = Fin(7 * Unit)
  /\ \A ub \in CastResults : asInt(value, I64(7), ub) = I64(7)
\* C12: an accessor returns the fallback for an absent, wrong-typed or
\* non-finite field, and transport.set_bpm and transport.seek treat a NaN or
\* infinite number like an absent field
C12_NonFiniteAsAbsent ==
  (Answered /\ IsRequest /\ ~IsNull(PayloadMap)
     /\ CmdText \in {Ascii["transport.set_bpm"], Ascii["transport.seek"]})
    => /\ NumericFallback(nullptr)
       /\ asString(nullptr, Ascii["a"]) = Ascii["a"]
       /\ asBool(nullptr, TRUE) /\ ~asBool(nullptr, FALSE)
       /\ \A key \in DOMAIN PayloadMap.v :
            /\ ~FiniteNumber(PayloadMap.v[key]) => NumericFallback(PayloadMap.v[key])
            /\ PayloadMap.v[key].t # "str"
                 => asString(PayloadMap.v[key], Ascii["a"]) = Ascii["a"]
            /\ NonFinite(PayloadMap.v[key])
                 => HandledLike(WithPayload(request, Without(PayloadMap.v, key)))

\* the request names transport.set_bpm and gives no number as payload.bpm
BpmNotANumber ==
  /\ CmdText = Ascii["transport.set_bpm"]
  /\ \/ IsNull(PayloadMap)
     \/ Ascii["bpm"] \notin DOMAIN PayloadMap.v
     \/ PayloadMap.v[Ascii["bpm"]].t \notin {"int", "float"}
\* C13: transport.set_bpm whose payload.bpm is missing or not a number is
\* answered with ok = true and leaves the clock's bpm as it was
C13_BpmKept ==
  (Answered /\ IsRequest /\ BpmNotANumber)
    => /\ IsResponse(response)
       /\ Field(response, "ok") = MsgBool(TRUE)
       /\ ~HasField(response, "error")
       /\ transport.bpm = before.bpm
       /\ Field(Field(response, "payload"), "transport").v[Ascii["bpm"]]
            = MsgDouble(before.bpm)
\* payload.bpm was a string and the clock was playing at 90 bpm
C13_Witness ==
  /\ Answered /\ IsRequest /\ BpmNotANumber
  /\ ~IsNull(PayloadMap)
  /\ Ascii["bpm"] \in DOMAIN PayloadMap.v
  /\ PayloadMap.v[Ascii["bpm"]].t = "str"
  /\ before.bpm = Fin(90 * Unit) /\ before.playing /\ now > 0

\* ------------------------------------------------------- doubles in claims
\* 20.0 <= d <= 300.0
InBpmRange(d) == d.k = "fin" /\ 20 * Unit <= d.x /\ d.x <= 300 * Unit
\* d >= 0.0 (false for NaN)
AtLeastZero(d) ==
  \/ d.k = "fin" /\ d.x >= 0
  \/ d.k \in {"big", "inf"}
TransportCmds ==
  {Ascii[name] : name \in
     {"transport.get_state", "transport.play", "transport.pause",
      "transport.stop", "transport.seek", "transport.set_bpm"}}
\* the snapshot map of a transport Response
SnapshotOf(message) == Field(Field(message, "payload"), "transport")

\* C14: get_state, play, pause, stop, seek and set_bpm are always answered
\* with ok = true and the payload {transport: snapshot}; a tempo outside
\* 20..300 and a negative position are normalised, never refused
C14_TransportAlwaysOk ==
  (Answered /\ IsRequest /\ CmdText \in TransportCmds)
    => /\ IsResponse(response)
       /\ Field(response, "ok") = MsgBool(TRUE)
       /\ ~HasField(response, "error")
       /\ DOMAIN Field(response, "payload").v = {Ascii["transport"]}
       /\ \E ub \in CastResults :
            SnapshotOf(response) = MsgObj(snapshot(transport, now, ub))
       /\ InBpmRange(transport.bpm)
       /\ AtLeastZero(transport.offsetBeats)
       /\ SnapshotOf(response).v[Ascii["bpm"]] = MsgDouble(transport.bpm)
\* a tempo of 1000 was asked for and 300 is reported
C14_Witness ==
  /\ Answered /\ IsRequest /\ CmdText = Ascii["transport.set_bpm"]
  /\ ~IsNull(PayloadMap)
  /\ Ascii["bpm"] \in DOMAIN PayloadMap.v
  /\ PayloadMap.v[Ascii["bpm"]] = MsgInt(I64(1000))
  /\ Field(response, "ok") = MsgBool(TRUE)
  /\ SnapshotOf(response).v[Ascii["bpm"]] = MsgDouble(Fin(300 * Unit))

\* the payload holds an Int or a Float under this key
NumberAt(key) ==
  /\ ~IsNull(PayloadMap)
  /\ Ascii[key] \in DOMAIN PayloadMap.v
  /\ PayloadMap.v[Ascii[key]].t \in {"int", "float"}
AbsentAt(key) == IsNull(PayloadMap) \/ Ascii[key] \notin DOMAIN PayloadMap.v
\* that number as a double
ValueAt(key) ==
  IF PayloadMap.v[Ascii[key]].t = "int"
  THEN DoubleOfI64(PayloadMap.v[Ascii[key]].v)
  ELSE DoubleFromBits(PayloadMap.v[Ascii[key]].v)
\* four times a number of bars
FourTimes(d) == IF d.k = "fin" THEN Norm(4 * d.x) ELSE d
\* the first number among position_beats, positionBeats and position_bars
FirstPresent ==
  IF NumberAt("position_beats") THEN ValueAt("position_beats")
  ELSE IF NumberAt("positionBeats") THEN ValueAt("positionBeats")
  ELSE IF NumberAt("position_bars") THEN FourTimes(ValueAt("position_bars"))
  ELSE Fin(0)
\* where a seek to d puts the clock: d, or 0 for a negative or non-finite d
Sought(d) ==
  CASE d.k = "fin" /\ d.x > 0 -> d
    [] d.k = "big" -> d
    [] OTHER -> Fin(0)
IsSeek == Answered /\ IsRequest /\ CmdText = Ascii["transport.seek"]
LaterTimes == {t \in now..MaxClockTime : (t - now) % 500 = 0}
\* offsetBeats + elapsedMillis * bpm / 60000
Linear(offsetBeats, elapsedMillis, bpm) ==
  IF offsetBeats.k = "fin"
  THEN Norm(offsetBeats.x + elapsedMillis * (bpm.x \div 60000))
  ELSE offsetBeats

\* C16: whatever play, pause, stop, seekToBeats and setBpm were called with
\* and whenever, 20 <= bpm <= 300, offsetBeats >= 0 and the position >= 0
C16_ClockInvariant ==
  /\ InBpmRange(transport.bpm)
  /\ AtLeastZero(transport.offsetBeats)
  /\ AtLeastZero(positionBeatsAt(transport, now))
\* a playing clock that had run for a while was given a huge negative tempo
C16_Witness ==
  /\ op = [name |-> "setBpm", arg |-> NBig]
  /\ before.playing /\ now > before.startedAt
  /\ before.offsetBeats = Big
  /\ transport.bpm = Fin(20 * Unit)

\* C17: while playing the position is offsetBeats plus the beats of the time
\* since the anchor at the clock's tempo; while not playing it is offsetBeats
\* now and at every later time
C17_LinearOrFrozen ==
  /\ transport.playing
       => positionBeatsAt(transport, now)
            = Linear(transport.offsetBeats, now - transport.startedAt, transport.bpm)
  /\ ~transport.playing
       => \A later \in LaterTimes :
            positionBeatsAt(transport, later) = transport.offsetBeats
\* play() from the stopped clock at 120 bpm, 1000 ms ago: 2 beats
C17_Witness ==
  /\ transport.playing
  /\ transport.bpm = Fin(120 * Unit)
  /\ transport.offsetBeats = Fin(0)
  /\ now - transport.startedAt = 1000
  /\ positionBeatsAt(transport, now) = Fin(2 * Unit)

\* C18: play() changes nothing on a playing clock; on a clock that is not
\* playing it sets the anchor to now and playing to true, keeps offsetBeats
\* and bpm, and so keeps the position of that instant
C18_Play ==
  op.name = "play"
    => /\ before.playing => transport = before
       /\ ~before.playing
            => /\ transport.startedAt = now
               /\ transport.playing
               /\ transport.offsetBeats = before.offsetBeats
               /\ transport.bpm = before.bpm
               /\ positionBeatsAt(transport, now) = positionBeatsAt(before, now)
\* play() on a clock that had been playing from 4 beats for a while
C18_Witness ==
  /\ op.name = "play"
  /\ before.playing /\ now > before.startedAt
  /\ before.offsetBeats = Fin(4 * Unit)
  /\ transport = before

\* C19: pause() changes nothing on a clock that is not playing; on a playing
\* clock it stores the position into offsetBeats, clears playing and keeps
\* bpm; the next play() resumes from that position, whenever it comes
C19_PauseResume ==
  /\ op.name = "pause"
       => /\ ~before.playing => transport = before
          /\ before.playing
               => /\ transport.offsetBeats = positionBeatsAt(before, now)
                  /\ ~transport.playing
                  /\ transport.bpm = before.bpm
                  /\ held = [by |-> "pause", pos |-> transport.offsetBeats]
  /\ (op.name = "play" /\ ~before.playing /\ held.by = "resumed")
       => /\ transport.playing
          /\ positionBeatsAt(transport, now) = held.pos
\* the clock was paused away from 0 and play() came later
C19_Witness ==
  /\ op.name = "play" /\ ~before.playing /\ held.by = "resumed"
  /\ held.pos.k = "fin" /\ held.pos.x > 0
  /\ now > before.startedAt
  /\ positionBeatsAt(transport, now) = held.pos

\* C20: stop() clears playing, sets offsetBeats to 0 and the anchor to now
\* and keeps bpm, whatever the clock was doing; the position is then 0 until
\* the next play or seek
C20_Stop ==
  /\ op.name = "stop"
       => /\ ~transport.playing
          /\ transport.offsetBeats = Fin(0)
          /\ transport.startedAt = now
          /\ transport.bpm = before.bpm
  /\ held.by = "stop"
       => \A later \in LaterTimes : positionBeatsAt(transport, later) = Fin(0)
\* stop() on a clock that had been playing from 4 beats at 120 bpm
C20_Witness ==
  /\ op.name = "stop"
  /\ before.playing /\ now > before.startedAt
  /\ before.offsetBeats = Fin(4 * Unit)
  /\ before.bpm = Fin(120 * Unit)
  /\ positionBeatsAt(transport, now) = Fin(0)

\* C21: seekToBeats(d) sets offsetBeats to max(0, d), to 0 for a NaN or
\* infinite d, sets the anchor to now and keeps playing and bpm; the position
\* of that instant is the new offsetBeats and a playing clock goes on from it
C21_Seek ==
  op.name = "seekToBeats"
    => /\ transport.offsetBeats = Sought(op.arg)
       /\ transport.startedAt = now
       /\ transport.playing = before.playing
       /\ transport.bpm = before.bpm
       /\ positionBeatsAt(transport, now) = transport.offsetBeats
       /\ transport.playing
            => \A later \in LaterTimes :
                 positionBeatsAt(transport, later)
                   = Linear(transport.offsetBeats, later - now, transport.bpm)
\* a clock that had played on from 4 beats was sent to NaN
C21_Witness ==
  /\ op = [name |-> "seekToBeats", arg |-> NaN]
  /\ before.playing /\ now > before.startedAt /\ now < MaxClockTime
  /\ before.offsetBeats = Fin(4 * Unit)
  /\ transport.offsetBeats = Fin(0)

\* b clamped into [20, 300]
Clamped(b) ==
  CASE b.k \in {"big", "inf"} -> Fin(300 * Unit)
    [] b.k \in {"nbig", "ninf"} -> Fin(20 * Unit)
    [] b.k = "fin" /\ b.x > 300 * Unit -> Fin(300 * Unit)
    [] b.k = "fin" /\ b.x < 20 * Unit -> Fin(20 * Unit)
    [] OTHER -> b
\* what setBpm(b) leaves besides the tempo: playing as it was, the position
\* of that instant as it was, offsetBeats untouched on a clock not playing
TempoChangeKeepsPosition ==
  /\ transport.playing = before.playing
  /\ positionBeatsAt(transport, now) = positionBeatsAt(before, now)
  /\ before.playing
       => /\ transport.offsetBeats = positionBeatsAt(before, now)
          /\ transport.startedAt = now
  /\ ~before.playing => transport.offsetBeats = before.offsetBeats
\* C22 (as amended): setBpm(b) sets bpm to b clamped into [20, 300], and to
\* 128 when b is NaN or infinite; playing is kept, a playing clock folds the
\* elapsed time into offsetBeats and re-anchors, so that the position of that
\* instant is kept, and a clock not playing keeps offsetBeats
C22_SetBpm ==
  op.name = "setBpm"
    => /\ transport.bpm = (IF op.arg.k \in {"nan", "inf", "ninf"}
                           THEN Fin(128 * Unit) ELSE Clamped(op.arg))
       /\ TempoChangeKeepsPosition
\* a clock that had played on from 4 beats was set to 120 bpm
C22_Witness ==
  /\ op = [name |-> "setBpm", arg |-> Fin(120 * Unit)]
  /\ before.playing /\ now > before.startedAt
  /\ before.offsetBeats = Fin(4 * Unit)
  /\ before.bpm # Fin(120 * Unit)
  /\ transport.bpm = Fin(120 * Unit)
  /\ transport.offsetBeats # before.offsetBeats
\* C22 (as stated): setBpm(b) sets bpm to b clamped into [20, 300] for every
\* b that has an order (every b but NaN)
C22_AsStated ==
  (op.name = "setBpm" /\ op.arg.k # "nan")
    => /\ transport.bpm = Clamped(op.arg)
       /\ TempoChangeKeepsPosition

\* ------------------------------------------------------ the snapshot's fields
\* the position the clock shows when the snapshot is taken
SnapshotPosition == positionBeatsAt(transport, now)
Snap(name) == SnapshotOf(response).v[Ascii[name]]
\* lo <= the Int value <= hi, as int64_t
IntWithin(value, lo, hi) ==
  /\ value.t = "int"
  /\ I64Leq(I64(lo), value.v)
  /\ I64Leq(value.v, I64(hi))
\* bar, beat, stepIndex and step as derived from a position of x / Unit beats
DerivedFrom(x) ==
  /\ Snap("positionBars") = MsgDouble(Fin(x \div kBeatsPerBar))
  /\ Snap("bar") = MsgInt(I64((x \div (kBeatsPerBar * Unit)) + 1))
  /\ Snap("beat") = MsgInt(I64(((x % (kBeatsPerBar * Unit)) \div Unit) + 1))
  /\ Snap("stepIndex") = MsgInt(I64(((kStepsPerBeat * x) \div Unit) % 16))
  /\ Snap("step") = MsgInt(I64((((kStepsPerBeat * x) \div Unit) % 16) + 1))
\* 1 <= bar, 1 <= beat <= 4, 0 <= stepIndex <= 15, 1 <= step <= 16
FieldsInRange ==
  /\ Snap("bar").t = "int" /\ I64Leq(I64(1), Snap("bar").v)
  /\ IntWithin(Snap("beat"), 1, 4)
  /\ IntWithin(Snap("stepIndex"), 0, 15)
  /\ IntWithin(Snap("step"), 1, 16)
\* C23: the snapshot of a clock at p >= 0 beats reports positionBeats = p,
\* positionBars = p / 4, bar = floor(p / 4) + 1, beat = floor(p mod 4) + 1,
\* stepIndex = floor(4 p) mod 16, step = stepIndex + 1, and so bar >= 1,
\* 1 <= beat <= 4, 0 <= stepIndex <= 15 and 1 <= step <= 16
C23_Snapshot ==
  (Answered /\ IsRequest /\ CmdText \in TransportCmds)
    => /\ Snap("positionBeats") = MsgDouble(SnapshotPosition)
       /\ SnapshotPosition.k = "fin" => DerivedFrom(SnapshotPosition.x)
       /\ FieldsInRange

\* ------------------------------------------------------------------ the ticks
\* the steady time a tick was made at, in ms
TickTime(event) == I64ToInt(Field(Field(event, "payload"), "timestamp").v)
LastTick == Ticks(out)[Len(Ticks(out))]
\* the keys of a transport snapshot
SnapshotKeys ==
  {Ascii[name] : name \in
     {"playing", "recording", "bpm", "bar", "beat", "step", "stepIndex",
      "positionBars", "positionBeats", "timestamp"}}
IsLaterState(message) ==
  IsResponse(message) /\ Field(message, "id") = MsgInt(I64(3))
LaterStates == SelectSeq(out, IsLaterState)
\* the Response shows this clock at the time it was written
Shows(message, tc) ==
  /\ Field(message, "ok") = MsgBool(TRUE)
  /\ SnapshotOf(message).v[Ascii["playing"]] = MsgBool(tc.playing)
  /\ SnapshotOf(message).v[Ascii["bpm"]] = MsgDouble(tc.bpm)
  /\ SnapshotOf(message).v[Ascii["positionBeats"]]
       = MsgDouble(positionBeatsAt(tc, I64ToInt(SnapshotOf(message).v[Ascii["timestamp"]].v)))
\* C25: nothing the worker does between two connections (the close, the
\* return to accept, the accept) touches the clock, and the first get_state
\* of the next connection shows that clock, moved on by the time gone if it
\* is playing
C25_ClockSurvives ==
  /\ [][pc # "loop" => transport' = transport]_vars
  /\ [](\A i \in 1..Len(LaterStates) : Shows(LaterStates[i], transport))
\* the first connection started the clock, the second finds it playing and
\* further on
C25_Witness ==
  /\ conns = 2 /\ pc = "loop"
  /\ LaterStates # <<>>
  /\ SnapshotOf(LaterStates[1]).v[Ascii["playing"]] = MsgBool(TRUE)
  /\ SnapshotOf(LaterStates[1]).v[Ascii["positionBeats"]] # MsgDouble(Fin(0))

\* ---------------------------------------------------------------------- C26
\* C26: once g_running is false the socket thread ends (and main's
\* socketThread.join() returns), whatever the clients do, also when none is
\* connected and none ever connects.
C26_WorkerTerminates == (~g_running) ~> (pc = "exit")

\* ---------------------------------------------------------------------- C27
\* C27: every sendFrame (and every sendAll in it) returns, with success or
\* with failure, whatever the peer does, a peer that stops reading included.
C27_SendReturns == <>(spc \in {"true", "false"})

\* ------------------------------------------------------- the backend linked
\* the snapshot map shows the tempo and the position of this edit
BackendShown(snap, g) ==
  /\ snap.v[Ascii["bpm"]] = MsgDouble(g.bpm)
  /\ snap.v[Ascii["positionBeats"]] = MsgDouble(g.position)
  /\ snap.v[Ascii["positionBars"]] = MsgDouble(Fin(g.position.x \div EditBeatsPerBar))
\* the backend function a transport command ends in
BackendCallOf(cmd) ==
  CASE cmd = Ascii["transport.play"] -> "transportPlayImpl"
    [] cmd = Ascii["transport.pause"] -> "transportPauseImpl"
    [] cmd = Ascii["transport.stop"] -> "transportStopImpl"
    [] cmd = Ascii["transport.seek"] -> "transportSeek"
    [] cmd = Ascii["transport.set_bpm"] -> "setTempoOnMessageThread"
    [] OTHER -> "getTransportSnapshot"
\* the last handler has made this backend call
Issued(fn) == \E i \in 1..Len(ran) : ran[i].fn = fn
\* a transport command was handled and left an edit whose snapshot it read
BackendAnswered == IsRequest /\ CmdText \in TransportCmds /\ gState.loaded
\* the Response shows the edit, playing as given, and the command was
\* handed to the backend
BackendResponse(playing) ==
  /\ Field(response, "ok") = MsgBool(TRUE)
  /\ BackendShown(SnapshotOf(response), gState)
  /\ Snap("playing") = MsgBool(playing)
  /\ Issued(BackendCallOf(CmdText))
\* the tick Event shows the edit
BackendTicked ==
  /\ IsTick(tick)
  /\ BackendShown(Field(tick, "payload"), gState)
  /\ Field(tick, "payload").v[Ascii["playing"]] = MsgBool(gState.playing)

C29_OnMessageThread ==
  \A i \in 1..Len(ran) : ran[i].on = "message" /\ ran[i].waited <= 15000

\* ---------------------------------------------------------------------- C30
\* C30: when a backend call of a handler fails or its wait expires, the
\* Response is an error Response with a non-empty text, and the process
\* keeps running.
C30_FailureIsError ==
  /\ (Answered /\ \E i \in 1..Len(ran) : ~ran[i].done)
       => /\ Field(response, "ok") = MsgBool(FALSE)
          /\ HasField(response, "error")
          /\ Field(response, "error").v # <<>>
  /\ mm # "crashed"

\* ------------------------------------------------- what may touch the clock
\* the commands whose handlers call play, pause, stop, setBpm or seekToBeats
ClockCmds ==
  {Ascii[name] : name \in
     {"transport.play", "transport.record", "transport.pause",
      "transport.stop", "transport.seek", "transport.set_bpm"}}
\* the body decodes to one map that is a request for a command of ClockCmds
IsClockCommand(body) ==
  /\ CarriesMap(body)
  /\ asString(getField(MapOf(body).val.v, Ascii["type"]), <<>>) = Ascii["request"]
  /\ asString(getField(MapOf(body).val.v, Ascii["cmd"]), <<>>) \in ClockCmds
\* the bodies extracted by this step
NewBodies == IF pc = "loop" THEN SubSeq(bodies', Len(bodies) + 1, Len(bodies')) ELSE <<>>
\* C31: playing, bpm, offsetBeats and the anchor (startedAt) change only in a
\* step that handles a request for transport.play, .record, .pause, .stop,
\* .seek or .set_bpm: transport.get_state, health.ping, backend.info, the
\* other commands, frames that are rejected or do not decode, and the ticks
\* leave all four as they are
C31_OnlyTransportCommands ==
  [][transport' # transport
       => \E i \in 1..Len(NewBodies) : IsClockCommand(NewBodies[i])]_vars
\* backend.info and transport.get_state are answered and a tick is written,
\* 40 ms on, with the clock as it was constructed
C31_Witness ==
  /\ conns = 1 /\ Len(bodies) = 2
  /\ bodies[1] = encodeValue(Request(Id(0), Cmd("backend.info")))
  /\ IsGetState(bodies[2])
  /\ Len(Responses(out)) = 2 /\ Ticks(out) # <<>>
  /\ now = MaxTime
  /\ transport = TransportCore(0)

\* ------------------------------------------------------- incomplete frames
\* fewer than 4 bytes, or the header of a frame within the limit and fewer
\* than 4 + size bytes
Incomplete(buffer) ==
  \/ BLen(buffer) < kFrameHeaderBytes
  \/ /\ ~FrameTooLarge(buffer)
     /\ BLen(buffer) < kFrameHeaderBytes + frameSizeOf(buffer)
\* readBuffer once the n bytes of a recv() are inserted at its end
Arrived(n) == BCat(readBuffer, BTake(wire, n))
Trailing(body) == MapOf(body).ok /\ MapOf(body).off < BLen(body)
TrailingError == makeErrorResponse(I64(0), Ascii["unexpected trailing bytes"])
\* C33: a frame whose body is one complete Value followed by more bytes is
\* answered with the error Response "unexpected trailing bytes" with id 0,
\* and its Value is not dispatched: the clock of a first connection whose
\* first frame is such a frame is still the clock as constructed
C33_TrailingBytes ==
  /\ \A i \in 1..Len(bodies) :
       Trailing(bodies[i]) /\ i <= Len(Responses(out))
         => Responses(out)[i] = TrailingError
  /\ (conns = 1 /\ bodies # <<>> /\ Trailing(bodies[1]))
       => transport = TransportCore(0)
\* a well-formed transport.play request followed by one more byte has been
\* answered, and the transport.get_state after it shows the clock not playing
C33_Witness ==
  /\ conns = 1 /\ Len(bodies) = 2 /\ Len(Responses(out)) = 2
  /\ Trailing(bodies[1])
  /\ MapOf(bodies[1]).val = Request(Id(1), Cmd("transport.play"))
  /\ Responses(out)[1] = TrailingError
  /\ SnapshotOf(Responses(out)[2]).v[Ascii["playing"]] = MsgBool(FALSE)
  /\ ~transport.playing

\* ---------------------------------------------------------- decoding errors
UnexpectedEnd == "unexpected end of MessagePack buffer"
UnsupportedTag == "unsupported MessagePack marker"
NonStringMapKey == "MessagePack map key must be string"
\* 0xC1, 0xC4-0xC9, 0xD4-0xD8
UnsupportedTags == {193} \cup 196..201 \cup 212..216
\* the bytes that follow a tag of fixed size
FixedSize(tag) ==
  CASE tag \in {204, 208} -> 1
    [] tag \in {205, 209} -> 2
    [] tag \in {206, 210, 202} -> 4
    [] tag \in {207, 211, 203} -> 8
    [] tag \in 160..191 -> tag % 32
    [] OTHER -> 0
\* the bytes of the length field that follows the tag
LengthSize(tag) ==
  CASE tag \in {217} -> 1
    [] tag \in {218, 220, 222} -> 2
    [] tag \in {219, 221, 223} -> 4
    [] OTHER -> 0
\* the input ends before what its tags declare: it is empty, ends inside a
\* scalar, a string or a length field, or declares elements and ends with the
\* declaration, or its first element ends so
RECURSIVE EndsEarly(_)
EndsEarly(data) ==
  \/ data = <<>>
  \/ /\ data # <<>>
     /\ LET tag == ByteAt(data, 0)
        IN \/ BLen(data) < 1 + FixedSize(tag)
           \/ BLen(data) < 1 + LengthSize(tag)
           \/ tag = 217 /\ BLen(data) < 2 + ByteAt(data, 1)
           \/ tag = 219 /\ BLen(data) >= 5
                /\ (ByteAt(data, 1) > 0 \/ ByteAt(data, 2) > 16)
           \/ tag \in {220, 221, 222, 223}
                /\ BLen(data) = 1 + LengthSize(tag)
                /\ \E i \in 1..LengthSize(tag) : ByteAt(data, i) > 0
           \/ tag \in 129..143 \cup 145..159 /\ BLen(data) = 1
           \/ tag = 145 /\ EndsEarly(BDrop(data, 1))
\* the first key of a map is a complete value that is no string
NonStringKey(data) ==
  /\ BLen(data) >= 2
  /\ ByteAt(data, 0) \in 129..143
  /\ ByteAt(data, 1) \in 0..127 \cup {192, 194, 195}
\* C34: decoding reports the end of the input before what a tag declares as
\* the unexpected-end error, a first byte of 0xC1, 0xC4-0xC9 or 0xD4-0xD8 as
\* the unsupported-tag error and a map key that is no string as the
\* non-string-key error, and fails in no other way
C34_ErrorKinds ==
  cpc = "decoded" =>
    /\ EndsEarly(cbytes) => ~cres.ok /\ cres.what = UnexpectedEnd
    /\ (cbytes # <<>> /\ ByteAt(cbytes, 0) \in UnsupportedTags)
         => ~cres.ok /\ cres.what = UnsupportedTag
    /\ NonStringKey(cbytes) => ~cres.ok /\ cres.what = NonStringMapKey
    /\ ~cres.ok => cres.what \in {UnexpectedEnd, UnsupportedTag, NonStringMapKey}

\* ------------------------------------------------------- decoding in bounds
\* what readValue throws: the three errors of the decoder and the failure of
\* an allocation
Thrown == {UnexpectedEnd, UnsupportedTag, NonStringMapKey, "std::bad_alloc"}
\* C39: whatever the bytes and the lengths they declare, the decoder stops
\* with offset_ at most data_.size(), and readValue has returned a Value or
\* thrown
C39_InBounds ==
  cpc = "decoded" =>
    /\ cres.off <= BLen(cbytes)
    /\ cres.ok \/ cres.what \in Thrown

\* ------------------------------------------------------------- late lambdas
\* C35: a lambda that the message thread runs after the wait of the function
\* that queued it has expired uses nothing of that function: not its mutex,
\* its condition variable or its done flag, and not the result and the error
\* text it fills for its caller
C35_NoLateUse == touched = {}

\* ---------------------------------------------------------- the accept loop
\* C36: the socket thread leaves its accept loop only once g_running is
\* false: while it is true, the end of a connection and a failed accept()
\* both lead back to accept()
C36_KeepsServing == pc = "exit" => ~g_running

\* ------------------------------------------------- one buffer per connection
\* C37: readBuffer belongs to the connection: whatever an earlier connection
\* left in its buffer when it closed, an accepted connection starts with an
\* empty buffer, and the first frame extracted on it is the first frame its
\* client sent, from its first byte on
C37_BufferPerConnection ==
  /\ [][(pc = "accept" /\ pc' = "loop") => readBuffer' = <<>>]_vars
  /\ [](bodies # <<>> => bodies[1] = BodyOf(script[1]))
\* the first connection has ended at the client's close with a header and a
\* part of its body buffered, and the thread is back in accept()
C37_Witness ==
  /\ pc = "accept" /\ conns = 1 /\ closed = "eof"
  /\ BLen(readBuffer) > kFrameHeaderBytes
  /\ Incomplete(readBuffer)
  /\ Len(bodies) = 1

\* ------------------------------------------------------- camelCase aliases
\* the payload holds a number under this key and none of the other three
OnlyAt(key) ==
  /\ NumberAt(key)
  /\ \A other \in {"position_beats", "positionBeats", "position_bars",
                   "positionBars"} \ {key} : AbsentAt(other)
\* C38: a transport.seek that carries only positionBars = b puts the clock
\* where one that carries only position_bars = b puts it, at 4 * b beats, and
\* one that carries only positionBeats = p where position_beats = p puts it,
\* at p (at 0 when that is negative or not finite)
C38_Aliases ==
  IsSeek
    => /\ OnlyAt("positionBars")
            => transport.offsetBeats = Sought(FourTimes(ValueAt("positionBars")))
       /\ OnlyAt("position_bars")
            => transport.offsetBeats = Sought(FourTimes(ValueAt("position_bars")))
       /\ OnlyAt("positionBeats")
            => transport.offsetBeats = Sought(ValueAt("positionBeats"))
       /\ OnlyAt("position_beats")
            => transport.offsetBeats = Sought(ValueAt("position_beats"))

\* ------------------------------------------------------- the buffer's size
\* the four header bytes declare at most 0x00100000
InLimit(buffer) ==
  /\ ByteAt(buffer, 0) = 0
  /\ \/ ByteAt(buffer, 1) < 16
     \/ ByteAt(buffer, 1) = 16 /\ ByteAt(buffer, 2) = 0 /\ ByteAt(buffer, 3) = 0
\* C40: whenever processIncomingBuffer has returned true the buffer holds a
\* part of a header or one incomplete frame within the limit, so fewer than
\* 4 + 1,048,576 bytes, and with the bytes of the next recv() inserted it
\* holds fewer than that plus 4096
C40_BufferBounded ==
  pc = "loop" =>
    /\ \/ BLen(readBuffer) < kFrameHeaderBytes
       \/ /\ InLimit(readBuffer)
          /\ BLen(readBuffer) < kFrameHeaderBytes + frameSizeOf(readBuffer)
    /\ BLen(readBuffer) < kFrameHeaderBytes + kMaxFrameSize
    /\ \A n \in RecvSizes :
         BLen(Arrived(n)) < kFrameHeaderBytes + kMaxFrameSize + kChunkBytes
\* all but the last byte of a frame of kMaxFrameSize bytes is buffered
C40_Witness ==
  /\ pc = "loop" /\ closed = ""
  /\ BLen(readBuffer) = kFrameHeaderBytes + kMaxFrameSize - 1
  /\ BLen(wire) >= 1
====
